---- MODULE Spec2Model ----
(***************************************************************************)
(* Model of the gaming-server coordination core:                           *)
(*   src/src/server_state_machine.c  - the coordinator FSM and its context *)
(*   src/src/main.c                  - the daemon main loop and handlers   *)
(*   src/src/ps5_wake.c              - the wake protocol                   *)
(*   src/src/cec_monitor.c           - the CEC power-state poller          *)
(*   src/src/ps5_detector.c          - the detector's scan                 *)
(*                                                                         *)
(* Spec       drives the public API of server_state_machine.c in any order *)
(*            (as the unit tests do), with the clock advancing in between. *)
(* DaemonSpec drives the context through main_loop of main.c.              *)
(***************************************************************************)
EXTENDS Integers, Sequences, FiniteSets, TLC

VARIABLES
    ctx,        \* server_context_t (g_server_ctx in main.c)
    now,        \* the value time(NULL) returns
    last,       \* the last operation: its name, argument, return value, reply
    pc,         \* position of main_loop in its iteration ("api" under Spec)
    served,     \* messages dispatched by the current ws_server_service call
    wake_initialized, \* g_initialized of ps5_wake.c
    cec,        \* g_cec_ctx of cec_monitor.c
    det         \* the globals of ps5_detector.c and the cache file

vars == <<ctx, now, last, pc, served, wake_initialized, cec, det>>

(***************************************************************************)
(* Program constants                                                       *)
(***************************************************************************)
SERVER_STATE_TIMEOUT_SEC == 30
SERVER_DETECT_INTERVAL_SEC == 60
WAKE_TIMEOUT_SEC == 30
TEST_MAX_RETRIES == 3
PS5_CACHE_MAX_AGE == 3600

(***************************************************************************)
(* Bounds of the model                                                     *)
(***************************************************************************)
StartTime == 100      \* time(NULL) when the context is constructed
MaxElapsed == 60      \* the clock is followed for this many seconds
MaxServed == 2        \* messages one ws_server_service call dispatches
MaxTimeout == 3       \* largest timeout_sec the wake functions are called with
MaxRetries == 3       \* largest max_retries ps5_wake_with_retry is called with

TimeSteps == {15, 30}  \* seconds the clock advances by in one step

ServerStates == {"INIT", "IDLE", "MONITORING", "DETECTING", "QUERYING",
                 "WAKING", "BROADCASTING", "ERROR"}
ServerEvents == {"NONE", "CEC_CHANGE", "CLIENT_QUERY", "WAKE_REQUEST",
                 "DETECT_TIMEOUT", "COMPLETED", "ERROR"}
PowerStates == {"UNKNOWN", "ON", "STANDBY", "OFF"}
WakeResults == {"SUCCESS", "TIMEOUT", "CEC_ERROR", "VERIFY_FAILED",
                "NOT_INITIALIZED"}

\* a null char or function pointer
NULL == "NULL"

\* a null struct pointer and a pointer to the struct x
NullPtr == <<>>
Ptr(x) == <<x>>

\* ps5_info_t values: the zeroed struct, the record the scan produces, and
\* one other record a caller may supply.
ZeroInfo == [ip |-> "", mac |-> "", last_seen |-> 0, online |-> FALSE]
ScanInfo(t) == [ip |-> "192.168.1.100", mac |-> "AA:BB:CC:DD:EE:FF",
                last_seen |-> t, online |-> TRUE]
OtherInfo == [ip |-> "192.168.1.50", mac |-> "11:22:33:44:55:66",
              last_seen |-> 0, online |-> FALSE]
CallerInfos == {ScanInfo(0), OtherInfo}

(***************************************************************************)
(* server_state_machine.c                                                  *)
(***************************************************************************)

\* memset(ctx, 0, sizeof(server_context_t)); log is the record of the FSM
\* transitions made by the operation in progress and notified the record of
\* the calls it makes of a state-change callback (not fields of the struct).
ZeroCtx == [state |-> "INIT", prev_state |-> "INIT",
            cec_state |-> "UNKNOWN", network_online |-> FALSE,
            info |-> ZeroInfo, last_update |-> 0,
            state_enter_time |-> 0, last_detect_time |-> 0,
            initialized |-> FALSE, running |-> FALSE,
            user_data |-> NULL,
            log |-> <<>>, notified |-> <<>>]

\* mutant: the transition is made without its bookkeeping
change_state_no_bookkeeping(c, new_state, t) ==
    IF c.state # new_state
    THEN [c EXCEPT !.state = new_state,
                   !.log = Append(@, <<c.state, new_state>>)]
    ELSE c

\* the body has no call of a callback ("TODO" at line 28): notified is
\* left as it is
change_state(c, new_state, t) ==
    IF c.state # new_state
    THEN [c EXCEPT !.prev_state = c.state,
                   !.state = new_state,
                   !.state_enter_time = t,
                   !.log = Append(@, <<c.state, new_state>>)]
    ELSE c

\* mutant: the watchdog compared against the detection interval
is_state_timeout_detect_interval(c, t) ==
    (t - c.state_enter_time) >= SERVER_DETECT_INTERVAL_SEC

is_state_timeout(c, t) ==
    (t - c.state_enter_time) >= SERVER_STATE_TIMEOUT_SEC

\* mutant: the network fallback tested before the standby and off cases
determine_ps5_status_network_first(cec_state, network_online) ==
    IF cec_state = "ON" /\ network_online THEN "on"
    ELSE IF cec_state = "ON" /\ ~network_online THEN "starting"
    ELSE IF network_online THEN "on"
    ELSE IF cec_state = "STANDBY" THEN "standby"
    ELSE IF cec_state = "OFF" THEN "off"
    ELSE "unknown"

determine_ps5_status(cec_state, network_online) ==
    IF cec_state = "ON" /\ network_online THEN "on"
    ELSE IF cec_state = "ON" /\ ~network_online THEN "starting"
    ELSE IF cec_state = "STANDBY" THEN "standby"
    ELSE IF cec_state = "OFF" THEN "off"
    ELSE IF network_online THEN "on"
    ELSE "unknown"

\* mutant: construction counts as a detection
server_sm_init_stamps_detect_time(p, t) ==
    IF p = NullPtr THEN [ctx |-> p, ret |-> -1]
    ELSE LET c0 == [ZeroCtx EXCEPT !.state_enter_time = t,
                                   !.initialized = TRUE,
                                   !.last_update = t,
                                   !.last_detect_time = t,
                                   !.log = p[1].log]
             c1 == change_state(c0, "IDLE", t)
         IN [ctx |-> Ptr([c1 EXCEPT !.running = TRUE]), ret |-> 0]

\* mutant: the context is left in INIT
server_sm_init_stays_in_init(p, t) ==
    IF p = NullPtr THEN [ctx |-> p, ret |-> -1]
    ELSE LET c0 == [ZeroCtx EXCEPT !.state_enter_time = t,
                                   !.initialized = TRUE,
                                   !.last_update = t,
                                   !.log = p[1].log]
         IN [ctx |-> Ptr([c0 EXCEPT !.running = TRUE]), ret |-> 0]

\* p is NullPtr or Ptr of the caller's context; ctx is the pointer with the
\* context after the call
server_sm_init(p, t) ==
    IF p = NullPtr THEN [ctx |-> p, ret |-> -1]
    ELSE LET c0 == [ZeroCtx EXCEPT !.state_enter_time = t,
                                   !.initialized = TRUE,
                                   !.last_update = t,
                                   !.log = p[1].log]
             c1 == change_state(c0, "IDLE", t)
         IN [ctx |-> Ptr([c1 EXCEPT !.running = TRUE]), ret |-> 0]

\* the callback argument is dropped ("(void)callback"), user_data is kept
server_sm_set_callback(c, callback, user_data) ==
    [c EXCEPT !.user_data = user_data]

\* the switch of server_sm_handle_event
handle_event_switch(c, event, t) ==
    CASE c.state = "IDLE" ->
            IF event = "CEC_CHANGE" THEN change_state(c, "MONITORING", t)
            ELSE IF event = "CLIENT_QUERY" THEN change_state(c, "QUERYING", t)
            ELSE IF event = "WAKE_REQUEST" THEN change_state(c, "WAKING", t)
            ELSE c
      [] c.state = "MONITORING" ->
            IF event = "COMPLETED" THEN change_state(c, "BROADCASTING", t)
            ELSE IF event = "ERROR" THEN change_state(c, "ERROR", t)
            ELSE c
      [] c.state = "DETECTING" ->
            IF event = "COMPLETED" THEN change_state(c, "IDLE", t)
            ELSE IF event = "DETECT_TIMEOUT" THEN change_state(c, "ERROR", t)
            ELSE c
      [] c.state = "QUERYING" ->
            IF event = "COMPLETED" THEN change_state(c, "IDLE", t)
            ELSE c
      [] c.state = "WAKING" ->
            IF event = "COMPLETED" THEN change_state(c, "MONITORING", t)
            ELSE IF event = "ERROR" THEN change_state(c, "ERROR", t)
            ELSE c
      [] c.state = "BROADCASTING" ->
            IF event = "COMPLETED" THEN change_state(c, "IDLE", t)
            ELSE c
      [] c.state = "ERROR" ->
            IF event = "NONE" THEN change_state(c, "IDLE", t)
            ELSE c
      [] OTHER -> c

\* mutant: a finished wake returns to IDLE instead of MONITORING
server_sm_handle_event_wake_to_idle(c, event, t) ==
    IF ~c.initialized
    THEN [ctx |-> c, ret |-> -1]
    ELSE [ctx |-> IF c.state = "WAKING" /\ event = "COMPLETED"
                  THEN change_state(c, "IDLE", t)
                  ELSE handle_event_switch(c, event, t),
          ret |-> 0]

\* mutant: an ERROR event is taken in every state
server_sm_handle_event_error_anywhere(c, event, t) ==
    IF ~c.initialized
    THEN [ctx |-> c, ret |-> -1]
    ELSE [ctx |-> IF event = "ERROR"
                  THEN change_state(c, "ERROR", t)
                  ELSE handle_event_switch(c, event, t),
          ret |-> 0]

server_sm_handle_event(c, event, t) ==
    IF ~c.initialized
    THEN [ctx |-> c, ret |-> -1]
    ELSE [ctx |-> handle_event_switch(c, event, t), ret |-> 0]

\* mutant: a detection is started on every tick that finds IDLE
server_sm_update_detects_every_tick(c, t) ==
    IF ~c.initialized \/ ~c.running
    THEN [ctx |-> c, ret |-> -1]
    ELSE LET c1 == IF is_state_timeout(c, t)
                      /\ c.state # "IDLE" /\ c.state # "ERROR"
                   THEN change_state(c, "ERROR", t)
                   ELSE c
             c2 == IF c1.state = "IDLE"
                   THEN change_state([c1 EXCEPT !.last_detect_time = t],
                                     "DETECTING", t)
                   ELSE c1
         IN [ctx |-> c2, ret |-> 0]

\* mutant: the tick has no watchdog
server_sm_update_no_watchdog(c, t) ==
    IF ~c.initialized \/ ~c.running
    THEN [ctx |-> c, ret |-> -1]
    ELSE LET c2 == IF c.state = "IDLE"
                      /\ (t - c.last_detect_time) >= SERVER_DETECT_INTERVAL_SEC
                   THEN change_state([c EXCEPT !.last_detect_time = t],
                                     "DETECTING", t)
                   ELSE c
         IN [ctx |-> c2, ret |-> 0]

\* mutant: the periodic detection does not stamp last_detect_time
server_sm_update_no_detect_stamp(c, t) ==
    IF ~c.initialized \/ ~c.running
    THEN [ctx |-> c, ret |-> -1]
    ELSE LET c1 == IF is_state_timeout(c, t)
                      /\ c.state # "IDLE" /\ c.state # "ERROR"
                   THEN change_state(c, "ERROR", t)
                   ELSE c
             c2 == IF c1.state = "IDLE"
                      /\ (t - c1.last_detect_time) >= SERVER_DETECT_INTERVAL_SEC
                   THEN change_state(c1, "DETECTING", t)
                   ELSE c1
         IN [ctx |-> c2, ret |-> 0]

server_sm_update(c, t) ==
    IF ~c.initialized \/ ~c.running
    THEN [ctx |-> c, ret |-> -1]
    ELSE LET c1 == IF is_state_timeout(c, t)
                      /\ c.state # "IDLE" /\ c.state # "ERROR"
                   THEN change_state(c, "ERROR", t)
                   ELSE c
             c2 == IF c1.state = "IDLE"
                      /\ (t - c1.last_detect_time) >= SERVER_DETECT_INTERVAL_SEC
                   THEN change_state([c1 EXCEPT !.last_detect_time = t],
                                     "DETECTING", t)
                   ELSE c1
         IN [ctx |-> c2, ret |-> 0]

\* mutant: the new value is stored only when the FSM is IDLE
server_sm_update_cec_state_idle_only(c, cec_state, t) ==
    IF ~c.initialized
    THEN [ctx |-> c, ret |-> -1]
    ELSE IF c.cec_state # cec_state /\ c.state = "IDLE"
    THEN LET c1 == [c EXCEPT !.cec_state = cec_state, !.last_update = t]
         IN [ctx |-> server_sm_handle_event(c1, "CEC_CHANGE", t).ctx,
             ret |-> 0]
    ELSE [ctx |-> c, ret |-> 0]

\* mutant: the stored value is not compared with the new one
server_sm_update_cec_state_unconditional(c, cec_state, t) ==
    IF ~c.initialized
    THEN [ctx |-> c, ret |-> -1]
    ELSE LET c1 == [c EXCEPT !.cec_state = cec_state, !.last_update = t]
             c2 == IF c1.state = "IDLE"
                   THEN server_sm_handle_event(c1, "CEC_CHANGE", t).ctx
                   ELSE c1
         IN [ctx |-> c2, ret |-> 0]

server_sm_update_cec_state(c, cec_state, t) ==
    IF ~c.initialized
    THEN [ctx |-> c, ret |-> -1]
    ELSE IF c.cec_state # cec_state
    THEN LET c1 == [c EXCEPT !.cec_state = cec_state, !.last_update = t]
             c2 == IF c1.state = "IDLE"
                   THEN server_sm_handle_event(c1, "CEC_CHANGE", t).ctx
                   ELSE c1
         IN [ctx |-> c2, ret |-> 0]
    ELSE [ctx |-> c, ret |-> 0]

server_sm_update_network_state(c, online, t) ==
    IF ~c.initialized
    THEN [ctx |-> c, ret |-> -1]
    ELSE IF c.network_online # online
    THEN [ctx |-> [c EXCEPT !.network_online = online, !.last_update = t],
          ret |-> 0]
    ELSE [ctx |-> c, ret |-> 0]

server_sm_update_ps5_info(c, info, t) ==
    IF ~c.initialized
    THEN [ctx |-> c, ret |-> -1]
    ELSE [ctx |-> [c EXCEPT !.info = info,
                            !.network_online = info.online,
                            !.last_update = t],
          ret |-> 0]

server_sm_get_ps5_status(c) ==
    IF ~c.initialized THEN "unknown"
    ELSE determine_ps5_status(c.cec_state, c.network_online)

server_sm_get_state(c) == c.state

\* mutant: stop clears the running flag and leaves the state
server_sm_stop_keeps_state(c, t) ==
    [c EXCEPT !.running = FALSE]

server_sm_stop(c, t) ==
    change_state([c EXCEPT !.running = FALSE], "IDLE", t)

\* mutant: cleanup clears the running flag and skips the memset
server_sm_cleanup_keeps_initialized(c) == [c EXCEPT !.running = FALSE]

server_sm_cleanup(c) == [ZeroCtx EXCEPT !.log = c.log]

(***************************************************************************)
(* ps5_wake.c                                                              *)
(*                                                                         *)
(* Every function returns, next to its C result, the trace of what it did  *)
(* to the outside: "cec_ok" / "cec_fail" a cec-ctl command sent and its    *)
(* outcome, "ping_ok" / "ping_fail" one presence check, "sleep_500ms",     *)
(* "sleep_1s", "sleep_2s" one nanosleep; secs is the whole seconds the     *)
(* call took.                                                              *)
(***************************************************************************)

\* What one wake attempt meets: whether the cec-ctl command succeeds, from
\* how many seconds after the verification starts the console answers a
\* ping, and how many seconds an unanswered ping takes ("-W 1").
Env(cec_ok, up_after, ping_secs) ==
    [cec_ok |-> cec_ok, up_after |-> up_after, ping_secs |-> ping_secs]

Occurrences(trace, tokens) ==
    Cardinality({k \in DOMAIN trace : trace[k] \in tokens})

\* 0 when the command exits with status 0
execute_cec_command(env) == IF env.cec_ok THEN 0 ELSE -1

\* "ping -c 1 -W 1 <ip>" at elapsed seconds after the verification began;
\* it cannot succeed on an empty address
ping_ps5(ip, env, elapsed) ==
    ip # NULL /\ ip # "" /\ elapsed >= env.up_after

\* int ps5_wake_init(cec_device); accessible is access(device, R_OK | W_OK);
\* g_initialized is written on success only
ps5_wake_init(cec_device, accessible) ==
    IF cec_device = NULL THEN [sets_initialized |-> FALSE, ret |-> -1]
    ELSE IF ~accessible THEN [sets_initialized |-> FALSE, ret |-> -2]
    ELSE [sets_initialized |-> TRUE, ret |-> 0]

\* 0 on success, -1 not initialized, -2 command failed
ps5_wake_by_cec(initialized, env) ==
    IF ~initialized THEN [ret |-> -1, trace |-> <<>>]
    ELSE IF execute_cec_command(env) # 0
    THEN [ret |-> -2, trace |-> <<"cec_fail">>]
    ELSE [ret |-> 0, trace |-> <<"cec_ok", "sleep_500ms">>]

\* the while (1) of ps5_wake_verify, from an iteration that starts
\* elapsed seconds after start_time
RECURSIVE verify_loop(_, _, _, _)
verify_loop(ip, timeout_sec, env, elapsed) ==
    IF ping_ps5(ip, env, elapsed)
    THEN [verified |-> TRUE, trace |-> <<"ping_ok">>, secs |-> elapsed]
    ELSE LET current == elapsed + env.ping_secs
         IN IF current >= timeout_sec
            THEN [verified |-> FALSE, trace |-> <<"ping_fail">>,
                  secs |-> current]
            ELSE LET r == verify_loop(ip, timeout_sec, env, current + 1)
                 IN [r EXCEPT !.trace = <<"ping_fail", "sleep_1s">> \o @]

\* mutant: the loop gives up only after more than timeout_sec seconds
ps5_wake_verify_late_timeout(ip, timeout_sec, env) ==
    IF ip = NULL \/ timeout_sec <= 0
    THEN [verified |-> FALSE, trace |-> <<>>, secs |-> 0]
    ELSE verify_loop(ip, timeout_sec + 1, env, 0)

ps5_wake_verify(ip, timeout_sec, env) ==
    IF ip = NULL \/ timeout_sec <= 0
    THEN [verified |-> FALSE, trace |-> <<>>, secs |-> 0]
    ELSE verify_loop(ip, timeout_sec, env, 0)

\* mutant: the result of the CEC command is not looked at
ps5_wake_ignores_cec_result(initialized, info, timeout_sec, env) ==
    IF ~initialized
    THEN [result |-> "NOT_INITIALIZED", trace |-> <<>>, secs |-> 0]
    ELSE IF info = NullPtr \/ timeout_sec <= 0
    THEN [result |-> "NOT_INITIALIZED", trace |-> <<>>, secs |-> 0]
    ELSE LET sent == ps5_wake_by_cec(initialized, env)
             v == ps5_wake_verify(info[1].ip, timeout_sec, env)
         IN [result |-> IF v.verified THEN "SUCCESS" ELSE "VERIFY_FAILED",
             trace |-> sent.trace \o v.trace, secs |-> v.secs]

ps5_wake(initialized, info, timeout_sec, env) ==
    IF ~initialized
    THEN [result |-> "NOT_INITIALIZED", trace |-> <<>>, secs |-> 0]
    ELSE IF info = NullPtr \/ timeout_sec <= 0
    THEN [result |-> "NOT_INITIALIZED", trace |-> <<>>, secs |-> 0]
    ELSE LET sent == ps5_wake_by_cec(initialized, env)
         IN IF sent.ret # 0
            THEN [result |-> "CEC_ERROR", trace |-> sent.trace, secs |-> 0]
            ELSE LET v == ps5_wake_verify(info[1].ip, timeout_sec, env)
                 IN [result |-> IF v.verified THEN "SUCCESS"
                                ELSE "VERIFY_FAILED",
                     trace |-> sent.trace \o v.trace, secs |-> v.secs]

\* the for loop of ps5_wake_with_retry from attempt i (1-based) on;
\* envs[i] is what attempt i meets, attempts the results of the calls of
\* ps5_wake in order
RECURSIVE wake_retry_loop(_, _, _, _, _, _)
\* mutant: the backoff is slept after every attempt that failed
wake_retry_loop_always_backs_off(initialized, info, max_retries, timeout_sec, envs, i) ==
    LET a == ps5_wake(initialized, info, timeout_sec, envs[i])
    IN IF a.result = "SUCCESS"
       THEN [result |-> "SUCCESS", attempts |-> <<a.result>>,
             trace |-> a.trace, secs |-> a.secs]
       ELSE IF i < max_retries
       THEN LET r == wake_retry_loop(initialized, info, max_retries,
                                     timeout_sec, envs, i + 1)
            IN [result |-> r.result,
                attempts |-> <<a.result>> \o r.attempts,
                trace |-> a.trace \o <<"sleep_2s">> \o r.trace,
                secs |-> a.secs + 2 + r.secs]
       ELSE [result |-> a.result, attempts |-> <<a.result>>,
             trace |-> a.trace \o <<"sleep_2s">>, secs |-> a.secs + 2]

wake_retry_loop(initialized, info, max_retries, timeout_sec, envs, i) ==
    LET a == ps5_wake(initialized, info, timeout_sec, envs[i])
    IN IF a.result = "SUCCESS"
       THEN [result |-> "SUCCESS", attempts |-> <<a.result>>,
             trace |-> a.trace, secs |-> a.secs]
       ELSE IF i < max_retries
       THEN LET r == wake_retry_loop(initialized, info, max_retries,
                                     timeout_sec, envs, i + 1)
            IN [result |-> r.result,
                attempts |-> <<a.result>> \o r.attempts,
                trace |-> a.trace \o <<"sleep_2s">> \o r.trace,
                secs |-> a.secs + 2 + r.secs]
       ELSE [result |-> a.result, attempts |-> <<a.result>>,
             trace |-> a.trace, secs |-> a.secs]

\* mutant: max_retries <= 0 is not raised to one attempt
ps5_wake_with_retry_raw(initialized, info, max_retries, timeout_sec, envs) ==
    IF ~initialized \/ info = NullPtr \/ max_retries <= 0
    THEN [result |-> "NOT_INITIALIZED", attempts |-> <<>>,
          trace |-> <<>>, secs |-> 0]
    ELSE wake_retry_loop(initialized, info, max_retries,
                         timeout_sec, envs, 1)

ps5_wake_with_retry(initialized, info, max_retries, timeout_sec, envs) ==
    IF ~initialized \/ info = NullPtr
    THEN [result |-> "NOT_INITIALIZED", attempts |-> <<>>,
          trace |-> <<>>, secs |-> 0]
    ELSE wake_retry_loop(initialized, info,
                         IF max_retries <= 0 THEN 1 ELSE max_retries,
                         timeout_sec, envs, 1)

\* void ps5_wake_cleanup(void): g_initialized after it
ps5_wake_cleanup == FALSE

\* the attempts the daemon is followed through: the command fails, or the
\* console answers at once, after 15 s, at the last check, or too late
AttemptEnvs ==
    {Env(FALSE, 0, 0)}
        \cup {Env(TRUE, u, 0) :
                 u \in {0, 15, WAKE_TIMEOUT_SEC, WAKE_TIMEOUT_SEC + 1}}

(***************************************************************************)
(* ps5_detector.c                                                          *)
(*                                                                         *)
(* A C string is a string of the model; Chars gives its characters, which  *)
(* validate_ip and validate_mac read one by one.                           *)
(***************************************************************************)
Chars(s) ==
    CASE s = "" -> <<>>
      [] s = "0.0.0.0" -> <<"0", ".", "0", ".", "0", ".", "0">>
      [] s = "255.255.255.255" ->
           <<"2", "5", "5", ".", "2", "5", "5", ".", "2", "5", "5", ".", "2",
             "5", "5">>
      [] s = "256.0.0.1" -> <<"2", "5", "6", ".", "0", ".", "0", ".", "1">>
      [] s = "1.2.3" -> <<"1", ".", "2", ".", "3">>
      [] s = "1.2.3.4.5" -> <<"1", ".", "2", ".", "3", ".", "4", ".", "5">>
      [] s = "192.168.1.100" ->
           <<"1", "9", "2", ".", "1", "6", "8", ".", "1", ".", "1", "0", "0">>
      [] s = "192.168.1.50" ->
           <<"1", "9", "2", ".", "1", "6", "8", ".", "1", ".", "5", "0">>
      [] s = "+1.2.3.4" -> <<"+", "1", ".", "2", ".", "3", ".", "4">>
      [] s = " 1.2.3.4" -> <<" ", "1", ".", "2", ".", "3", ".", "4">>
      [] s = "1.2.3.4 " -> <<"1", ".", "2", ".", "3", ".", "4", " ">>
      [] s = "1.2.3.4x" -> <<"1", ".", "2", ".", "3", ".", "4", "x">>
      [] s = "-1.2.3.4" -> <<"-", "1", ".", "2", ".", "3", ".", "4">>
      [] s = "1.2. 3.4" -> <<"1", ".", "2", ".", " ", "3", ".", "4">>
      [] s = "1.2.3.-0" -> <<"1", ".", "2", ".", "3", ".", "-", "0">>
      [] s = "a.b.c.d" -> <<"a", ".", "b", ".", "c", ".", "d">>
      [] s = "1..2.3.4" -> <<"1", ".", ".", "2", ".", "3", ".", "4">>
      [] s = "1.2.3." -> <<"1", ".", "2", ".", "3", ".">>
      [] s = "0001.2.3.4" ->
           <<"0", "0", "0", "1", ".", "2", ".", "3", ".", "4">>
      [] s = "999999999.0.0.0" ->
           <<"9", "9", "9", "9", "9", "9", "9", "9", "9", ".", "0", ".", "0",
             ".", "0">>
      [] s = "1.2.3.4\n" -> <<"1", ".", "2", ".", "3", ".", "4", "\n">>
      [] s = "AA:BB:CC:DD:EE:FF" ->
           <<"A", "A", ":", "B", "B", ":", "C", "C", ":", "D", "D", ":", "E",
             "E", ":", "F", "F">>
      [] s = "11:22:33:44:55:66" ->
           <<"1", "1", ":", "2", "2", ":", "3", "3", ":", "4", "4", ":", "5",
             "5", ":", "6", "6">>
      [] s = "aa:bb:cc:dd:ee:0f" ->
           <<"a", "a", ":", "b", "b", ":", "c", "c", ":", "d", "d", ":", "e",
             "e", ":", "0", "f">>
      [] s = "AA:BB:CC:DD:EE" ->
           <<"A", "A", ":", "B", "B", ":", "C", "C", ":", "D", "D", ":", "E",
             "E">>
      [] s = "AA-BB-CC-DD-EE-FF" ->
           <<"A", "A", "-", "B", "B", "-", "C", "C", "-", "D", "D", "-", "E",
             "E", "-", "F", "F">>
      [] s = "GG:BB:CC:DD:EE:FF" ->
           <<"G", "G", ":", "B", "B", ":", "C", "C", ":", "D", "D", ":", "E",
             "E", ":", "F", "F">>
      [] s = "AA:BB:CC:DD:EE:FF:" ->
           <<"A", "A", ":", "B", "B", ":", "C", "C", ":", "D", "D", ":", "E",
             "E", ":", "F", "F", ":">>

\* the strings passed as IP addresses and as MAC addresses
IpStrings ==
    {"", "0.0.0.0", "255.255.255.255", "256.0.0.1", "1.2.3", "1.2.3.4.5",
     "192.168.1.100", "192.168.1.50", "+1.2.3.4", " 1.2.3.4", "1.2.3.4 ",
     "1.2.3.4x", "-1.2.3.4", "1.2. 3.4", "1.2.3.-0", "a.b.c.d",
     "1..2.3.4", "1.2.3.", "0001.2.3.4", "999999999.0.0.0", "1.2.3.4\n"}
MacStrings ==
    {"AA:BB:CC:DD:EE:FF", "11:22:33:44:55:66", "aa:bb:cc:dd:ee:0f",
     "AA:BB:CC:DD:EE", "AA-BB-CC-DD-EE-FF", "GG:BB:CC:DD:EE:FF",
     "AA:BB:CC:DD:EE:FF:", ""}

Digits == {"0", "1", "2", "3", "4", "5", "6", "7", "8", "9"}
HexDigits == Digits \cup {"A", "B", "C", "D", "E", "F",
                          "a", "b", "c", "d", "e", "f"}
\* isspace()
Spaces == {" ", "\t", "\n", "\r"}

DigitValue(ch) ==
    CASE ch = "0" -> 0 [] ch = "1" -> 1 [] ch = "2" -> 2 [] ch = "3" -> 3
      [] ch = "4" -> 4 [] ch = "5" -> 5 [] ch = "6" -> 6 [] ch = "7" -> 7
      [] ch = "8" -> 8 [] ch = "9" -> 9

RECURSIVE skip_spaces(_, _)
skip_spaces(cs, i) ==
    IF i <= Len(cs) /\ cs[i] \in Spaces THEN skip_spaces(cs, i + 1) ELSE i

RECURSIVE scan_digits(_, _, _)
scan_digits(cs, i, value) ==
    IF i <= Len(cs) /\ cs[i] \in Digits
    THEN scan_digits(cs, i + 1, 10 * value + DigitValue(cs[i]))
    ELSE [value |-> value, next |-> i]

\* the %d conversion of sscanf at position i: white space is skipped, a
\* sign is taken, then at least one digit is needed
scan_int(cs, i) ==
    LET j == skip_spaces(cs, i)
        signed == j <= Len(cs) /\ cs[j] \in {"+", "-"}
        k == IF signed THEN j + 1 ELSE j
    IN IF k <= Len(cs) /\ cs[k] \in Digits
       THEN LET r == scan_digits(cs, k, 0)
            IN [ok |-> TRUE,
                value |-> IF signed /\ cs[j] = "-" THEN 0 - r.value
                          ELSE r.value,
                next |-> r.next]
       ELSE [ok |-> FALSE, value |-> 0, next |-> k]

\* sscanf(ip, "%d.%d.%d.%d%c", ...) from the n-th %d at position i on:
\* the number of items assigned and the integers read
RECURSIVE sscanf_ip(_, _, _, _)
sscanf_ip(cs, i, n, values) ==
    LET r == scan_int(cs, i)
    IN IF ~r.ok THEN [matched |-> n - 1, values |-> values]
       ELSE IF n = 4
       THEN [matched |-> IF r.next <= Len(cs) THEN 5 ELSE 4,
             values |-> Append(values, r.value)]
       ELSE IF r.next <= Len(cs) /\ cs[r.next] = "."
       THEN sscanf_ip(cs, r.next + 1, n + 1, Append(values, r.value))
       ELSE [matched |-> n, values |-> Append(values, r.value)]

validate_ip(ip) ==
    IF ip = NULL \/ Len(Chars(ip)) = 0 THEN FALSE
    ELSE IF Len(Chars(ip)) < 7 \/ Len(Chars(ip)) > 15 THEN FALSE
    ELSE LET r == sscanf_ip(Chars(ip), 1, 1, <<>>)
         IN IF r.matched # 4 THEN FALSE
            ELSE \A k \in 1..4 : r.values[k] >= 0 /\ r.values[k] <= 255

validate_mac(mac) ==
    IF mac = NULL THEN FALSE
    ELSE IF Len(Chars(mac)) # 17 THEN FALSE
    ELSE \A i \in 0..16 :
            IF i % 3 = 2 THEN Chars(mac)[i + 1] = ":"
            ELSE Chars(mac)[i + 1] \in HexDigits

\* the globals of ps5_detector.c (g_cached_info, g_cache_path, g_initialized)
\* before ps5_detector_init, and the cache file: file is NullPtr when there
\* is no file and Ptr(info) when it holds the JSON record of info
ZeroDet == [initialized |-> FALSE, cached_info |-> ZeroInfo,
            cache_path |-> "", file |-> NullPtr]

\* the fields are read back as they were printed
load_cache_from_file(d) ==
    IF d.file = NullPtr THEN [det |-> d, ret |-> -1]
    ELSE [det |-> [d EXCEPT !.cached_info = d.file[1]], ret |-> 0]

\* writable: fopen(g_cache_path, "w") succeeds
save_cache_to_file(d, info, writable) ==
    IF info = NullPtr THEN [det |-> d, ret |-> -1]
    ELSE IF ~writable THEN [det |-> d, ret |-> -1]
    ELSE [det |-> [d EXCEPT !.file = info], ret |-> 0]

ps5_detector_init(d, subnet, cache_path) ==
    IF subnet = NULL \/ cache_path = NULL THEN [det |-> d, ret |-> -1]
    ELSE LET d1 == [d EXCEPT !.cached_info = ZeroInfo,
                             !.cache_path = cache_path]
             d2 == load_cache_from_file(d1).det
         IN [det |-> [d2 EXCEPT !.initialized = TRUE], ret |-> 0]

\* info is NullPtr or Ptr of the caller's struct; out is the struct after
\* the call
ps5_detector_scan(d, info, writable, t) ==
    IF ~d.initialized \/ info = NullPtr
    THEN [det |-> d, ret |-> -1, out |-> info]
    ELSE LET found == ScanInfo(t)
             d1 == [d EXCEPT !.cached_info = found]
         IN [det |-> save_cache_to_file(d1, Ptr(found), writable).det,
             ret |-> 0, out |-> Ptr(found)]

\* mutant: a valid candidate IP is not used, the scan runs every time
ps5_detector_quick_check_always_scans(d, cached_ip, info, writable, t) ==
    IF ~d.initialized \/ info = NullPtr
    THEN [det |-> d, ret |-> -1, out |-> info, scanned |-> FALSE]
    ELSE LET scan == ps5_detector_scan(d, info, writable, t)
         IN [det |-> scan.det, ret |-> scan.ret, out |-> scan.out,
             scanned |-> TRUE]

\* scanned: ps5_detector_scan was called
ps5_detector_quick_check(d, cached_ip, info, writable, t) ==
    IF ~d.initialized \/ info = NullPtr
    THEN [det |-> d, ret |-> -1, out |-> info, scanned |-> FALSE]
    ELSE IF cached_ip # NULL /\ validate_ip(cached_ip)
    THEN [det |-> d, ret |-> 0,
          out |-> Ptr([ip |-> cached_ip, mac |-> "AA:BB:CC:DD:EE:FF",
                       last_seen |-> t, online |-> TRUE]),
          scanned |-> FALSE]
    ELSE LET scan == ps5_detector_scan(d, info, writable, t)
         IN [det |-> scan.det, ret |-> scan.ret, out |-> scan.out,
             scanned |-> TRUE]

ps5_detector_get_cached(d, info) ==
    IF ~d.initialized \/ info = NullPtr THEN [ret |-> -1, out |-> info]
    ELSE IF Len(Chars(d.cached_info.ip)) = 0 THEN [ret |-> -1, out |-> info]
    ELSE [ret |-> 0, out |-> Ptr(d.cached_info)]

ps5_detector_save_cache(d, info, writable) ==
    IF ~d.initialized \/ info = NullPtr THEN [det |-> d, ret |-> -1]
    ELSE IF ~validate_ip(info[1].ip) \/ ~validate_mac(info[1].mac)
    THEN [det |-> d, ret |-> -1]
    ELSE save_cache_to_file([d EXCEPT !.cached_info = info[1]], info,
                            writable)

ps5_detector_ping(ip) == validate_ip(ip)

\* the cache file stays
ps5_detector_cleanup(d) == [ZeroDet EXCEPT !.file = d.file]

(***************************************************************************)
(* cec_monitor.c                                                           *)
(***************************************************************************)
\* static cec_monitor_context_t g_cec_ctx = {0}
ZeroCec == [initialized |-> FALSE, current_power_state |-> "UNKNOWN",
            previous_power_state |-> "UNKNOWN", last_update |-> 0,
            has_callback |-> FALSE]

\* The output of "cec-ctl --give-device-power-status" is the set of the
\* phrases parse_power_status looks for that it contains.
Phrases == {"power status: on", "pwr-state: on",
            "power status: standby", "pwr-state: standby",
            "power status: off", "pwr-state: to-standby"}
Outputs == {{}} \cup {{p} : p \in Phrases}
              \cup {{"pwr-state: standby", "power status: off"}}

\* one run of the command: whether popen and pclose succeed, and the output
CecQueries == {[cmd_ok |-> FALSE, output |-> {}]}
                 \cup {[cmd_ok |-> TRUE, output |-> o] : o \in Outputs}

parse_power_status(output) ==
    IF "power status: on" \in output \/ "pwr-state: on" \in output
    THEN "ON"
    ELSE IF "power status: standby" \in output
            \/ "pwr-state: standby" \in output
    THEN "STANDBY"
    ELSE IF "power status: off" \in output
            \/ "pwr-state: to-standby" \in output
    THEN "OFF"
    ELSE "UNKNOWN"

query_power_status(query) ==
    IF ~query.cmd_ok THEN "UNKNOWN" ELSE parse_power_status(query.output)

power_state_to_event(state) ==
    CASE state = "ON" -> "POWER_ON"
      [] state = "STANDBY" -> "STANDBY"
      [] state = "OFF" -> "POWER_OFF"
      [] OTHER -> "NONE"

\* on_cec_event of main.c, the callback registered by initialize_modules
on_cec_event(c, event, state, t) ==
    server_sm_update_cec_state(c, state, t).ctx

\* mutant: the callback is called at every poll, changed state or not
trigger_callback_if_changed_level(m, c, t) ==
    [cec |-> [m EXCEPT !.previous_power_state = m.current_power_state,
                       !.last_update = t],
     ctx |-> IF m.has_callback
             THEN on_cec_event(c, power_state_to_event(m.current_power_state),
                               m.current_power_state, t)
             ELSE c,
     calls |-> IF m.has_callback
               THEN << <<power_state_to_event(m.current_power_state),
                         m.current_power_state>> >>
               ELSE <<>>]

\* m is g_cec_ctx, c the context the callback writes to; calls lists the
\* calls of the callback as <<event, state>>
trigger_callback_if_changed(m, c, t) ==
    IF m.current_power_state # m.previous_power_state
    THEN [cec |-> [m EXCEPT !.previous_power_state = m.current_power_state,
                            !.last_update = t],
          ctx |-> IF m.has_callback
                  THEN on_cec_event(c,
                                    power_state_to_event(m.current_power_state),
                                    m.current_power_state, t)
                  ELSE c,
          calls |-> IF m.has_callback
                    THEN << <<power_state_to_event(m.current_power_state),
                              m.current_power_state>> >>
                    ELSE <<>>]
    ELSE [cec |-> m, ctx |-> c, calls |-> <<>>]

\* exists: the device path names an existing device (access(path, F_OK))
cec_monitor_init(m, device_path, exists, t) ==
    IF m.initialized THEN [cec |-> m, ret |-> -1]
    ELSE IF device_path = NULL \/ device_path = ""
    THEN [cec |-> m, ret |-> -2]
    ELSE IF ~exists THEN [cec |-> m, ret |-> -2]
    ELSE [cec |-> [m EXCEPT !.current_power_state = "UNKNOWN",
                            !.previous_power_state = "UNKNOWN",
                            !.last_update = t,
                            !.has_callback = FALSE,
                            !.initialized = TRUE],
          ret |-> 0]

\* callback is NULL or on_cec_event
cec_monitor_set_callback(m, callback) ==
    [m EXCEPT !.has_callback = (callback # NULL)]

\* mutant: a failed query is reported to the callback as UNKNOWN
cec_monitor_process_reports_failure(m, c, query, t) ==
    IF ~m.initialized
    THEN [cec |-> m, ctx |-> c, ret |-> -1, calls |-> <<>>]
    ELSE LET state == query_power_status(query)
         IN IF state # "UNKNOWN"
            THEN LET r == trigger_callback_if_changed(
                              [m EXCEPT !.current_power_state = state], c, t)
                 IN [cec |-> r.cec, ctx |-> r.ctx, ret |-> 0,
                     calls |-> r.calls]
            ELSE [cec |-> m,
                  ctx |-> IF m.has_callback
                          THEN on_cec_event(c, "NONE", "UNKNOWN", t)
                          ELSE c,
                  ret |-> -4,
                  calls |-> IF m.has_callback
                            THEN << <<"NONE", "UNKNOWN">> >> ELSE <<>>]

\* mutant: a failed query is stored as the current state
cec_monitor_process_stores_unknown(m, c, query, t) ==
    IF ~m.initialized
    THEN [cec |-> m, ctx |-> c, ret |-> -1, calls |-> <<>>]
    ELSE LET state == query_power_status(query)
             r == trigger_callback_if_changed(
                      [m EXCEPT !.current_power_state = state], c, t)
         IN [cec |-> r.cec, ctx |-> r.ctx,
             ret |-> IF state # "UNKNOWN" THEN 0 ELSE -4,
             calls |-> r.calls]

\* query is the run of the cec-ctl command this poll makes
cec_monitor_process(m, c, query, t) ==
    IF ~m.initialized
    THEN [cec |-> m, ctx |-> c, ret |-> -1, calls |-> <<>>]
    ELSE LET state == query_power_status(query)
         IN IF state # "UNKNOWN"
            THEN LET r == trigger_callback_if_changed(
                              [m EXCEPT !.current_power_state = state], c, t)
                 IN [cec |-> r.cec, ctx |-> r.ctx, ret |-> 0,
                     calls |-> r.calls]
            ELSE [cec |-> m, ctx |-> c, ret |-> -4, calls |-> <<>>]

\* state_ptr is NULL or the address the state is written to
cec_monitor_query_state(m, query, state_ptr, t) ==
    IF ~m.initialized THEN [cec |-> m, ret |-> -1, out |-> "UNKNOWN"]
    ELSE LET new_state == query_power_status(query)
         IN IF new_state # "UNKNOWN"
            THEN [cec |-> [m EXCEPT !.current_power_state = new_state,
                                    !.last_update = t],
                  ret |-> 0,
                  out |-> IF state_ptr # NULL THEN new_state ELSE "UNKNOWN"]
            ELSE [cec |-> m, ret |-> -4, out |-> "UNKNOWN"]

cec_monitor_cleanup(m) ==
    IF ~m.initialized THEN m ELSE ZeroCec

(***************************************************************************)
(* main.c: the message handler and the state processing of the main loop   *)
(***************************************************************************)

\* mutant: the query handler does not raise COMPLETED
on_ws_message_query_no_completed(c, t) ==
    LET c1 == server_sm_handle_event(c, "CLIENT_QUERY", t).ctx
        status == server_sm_get_ps5_status(c1)
        response == [type |-> "ps5_status", status |-> status,
                     ip |-> c1.info.ip, mac |-> c1.info.mac]
    IN [ctx |-> c1, response |-> response]

\* case WS_MSG_QUERY_PS5 of on_ws_message
on_ws_message_query(c, t) ==
    LET c1 == server_sm_handle_event(c, "CLIENT_QUERY", t).ctx
        status == server_sm_get_ps5_status(c1)
        response == [type |-> "ps5_status", status |-> status,
                     ip |-> c1.info.ip, mac |-> c1.info.mac]
        c2 == server_sm_handle_event(c1, "COMPLETED", t).ctx
    IN [ctx |-> c2, response |-> response]

\* mutant: the wake handler raises COMPLETED whatever the wake result
on_ws_message_wake_always_completed(c, initialized, env, t) ==
    LET c1 == server_sm_handle_event(c, "WAKE_REQUEST", t).ctx
        wake == ps5_wake(initialized, Ptr(c1.info), WAKE_TIMEOUT_SEC, env)
        c2 == server_sm_handle_event(c1, "COMPLETED", t + wake.secs).ctx
        response == [type |-> "wake_response",
                     status |-> IF wake.result = "SUCCESS" THEN "success"
                                ELSE "failed"]
    IN [ctx |-> c2, response |-> response, wake_result |-> wake.result,
        secs |-> wake.secs]

\* case WS_MSG_WAKE_PS5 of on_ws_message: t is the time the request is
\* taken, env what the attempt meets; ps5_wake is called in line, so the
\* handler returns secs seconds later
on_ws_message_wake(c, initialized, env, t) ==
    LET c1 == server_sm_handle_event(c, "WAKE_REQUEST", t).ctx
        wake == ps5_wake(initialized, Ptr(c1.info), WAKE_TIMEOUT_SEC, env)
        c2 == IF wake.result = "SUCCESS"
              THEN server_sm_handle_event(c1, "COMPLETED", t + wake.secs).ctx
              ELSE server_sm_handle_event(c1, "ERROR", t + wake.secs).ctx
        response == [type |-> "wake_response",
                     status |-> IF wake.result = "SUCCESS" THEN "success"
                                ELSE "failed"]
    IN [ctx |-> c2, response |-> response, wake_result |-> wake.result,
        secs |-> wake.secs]

\* case WS_MSG_PING of on_ws_message
on_ws_message_ping(c, t) ==
    [ctx |-> c, response |-> [type |-> "pong"]]

\* mutant: no recovery from the ERROR state
process_state_machine_no_recovery(c, d, writable, t) ==
    LET state == server_sm_get_state(c)
    IN CASE state = "DETECTING" ->
              LET scan == ps5_detector_scan(d, Ptr(ZeroInfo), writable, t)
              IN IF scan.ret = 0
                 THEN [ctx |-> server_sm_handle_event(
                                  server_sm_update_ps5_info(c, scan.out[1],
                                                            t).ctx,
                                  "COMPLETED", t).ctx,
                       det |-> scan.det, broadcast |-> ""]
                 ELSE [ctx |-> server_sm_handle_event(c, "ERROR", t).ctx,
                       det |-> scan.det, broadcast |-> ""]
         [] state = "BROADCASTING" ->
              [ctx |-> server_sm_handle_event(c, "COMPLETED", t).ctx,
               det |-> d, broadcast |-> server_sm_get_ps5_status(c)]
         [] OTHER -> [ctx |-> c, det |-> d, broadcast |-> ""]

\* d: the detector; writable: the cache file can be written by this call
process_state_machine(c, d, writable, t) ==
    LET state == server_sm_get_state(c)
    IN CASE state = "DETECTING" ->
              LET scan == ps5_detector_scan(d, Ptr(ZeroInfo), writable, t)
              IN IF scan.ret = 0
                 THEN [ctx |-> server_sm_handle_event(
                                  server_sm_update_ps5_info(c, scan.out[1],
                                                            t).ctx,
                                  "COMPLETED", t).ctx,
                       det |-> scan.det, broadcast |-> ""]
                 ELSE [ctx |-> server_sm_handle_event(c, "ERROR", t).ctx,
                       det |-> scan.det, broadcast |-> ""]
         [] state = "BROADCASTING" ->
              [ctx |-> server_sm_handle_event(c, "COMPLETED", t).ctx,
               det |-> d, broadcast |-> server_sm_get_ps5_status(c)]
         [] state = "ERROR" ->
              [ctx |-> server_sm_handle_event(c, "NONE", t).ctx,
               det |-> d, broadcast |-> ""]
         [] OTHER -> [ctx |-> c, det |-> d, broadcast |-> ""]

(***************************************************************************)
(* The state after construction: server_sm_init has run at StartTime       *)
(* (setUp of the unit tests, initialize_modules of main.c).                *)
(***************************************************************************)
NoOp == [op |-> "init", arg |-> "", ret |-> 0, reply |-> ""]

\* an operation starts with an empty transition record
Fresh(c) == [c EXCEPT !.log = <<>>, !.notified = <<>>]

\* cec_monitor_init succeeded and on_cec_event was registered
RunningCec ==
    cec_monitor_set_callback(
        cec_monitor_init(ZeroCec, "/dev/cec0", TRUE, StartTime).cec,
        "on_cec_event")
\* cec_monitor_init failed (not fatal): the zeroed g_cec_ctx, no callback
AbsentCec == cec_monitor_init(ZeroCec, "/dev/cec0", FALSE, StartTime).cec

\* ps5_detector_init succeeded (initialize_modules returns -1 otherwise and
\* main_loop is not entered); there is no cache file yet
RunningDet ==
    ps5_detector_init(ZeroDet, "192.168.1.0/24",
                      "/var/run/gaming/ps5_cache.json").det

InitCommon ==
    /\ now = StartTime
    /\ ctx = Fresh(server_sm_init(Ptr(ZeroCtx), StartTime).ctx[1])
    /\ last = NoOp
    /\ served = 0

Init ==
    /\ InitCommon
    /\ pc = "api"
    /\ wake_initialized = TRUE
    /\ cec = RunningCec
    /\ det = ZeroDet

\* initialize_modules: the CEC monitor and the wake module may fail to
\* initialize without stopping the daemon
DaemonInit ==
    /\ InitCommon
    /\ pc = "update"
    /\ wake_initialized \in BOOLEAN
    /\ cec \in {RunningCec, AbsentCec}
    /\ det = RunningDet

(***************************************************************************)
(* Actions of Spec: one per public function of server_state_machine.c      *)
(***************************************************************************)
Frame == UNCHANGED <<pc, served, wake_initialized, cec, det>>

\* the clock: it advances between API calls and, in the daemon, where
\* main_loop blocks (the cec-ctl subprocess of cec_monitor_process and
\* nanosleep; the wait inside ps5_wake is part of WsWake)
Advance ==
    \E d \in TimeSteps :
        /\ pc \in {"api", "cec", "sleep"}
        /\ now + d <= StartTime + MaxElapsed
        /\ now' = now + d
        /\ UNCHANGED <<ctx, last, pc, served, wake_initialized, cec, det>>

SmInit ==
    /\ pc = "api"
    /\ \E p \in {NullPtr, Ptr(Fresh(ctx))} :
          LET r == server_sm_init(p, now)
          IN /\ ctx' = IF p = NullPtr THEN Fresh(ctx) ELSE r.ctx[1]
             /\ last' = [op |-> "server_sm_init",
                         arg |-> IF p = NullPtr THEN NULL ELSE "&ctx",
                         ret |-> r.ret, reply |-> ""]
    /\ UNCHANGED now /\ Frame

HandleEvent ==
    /\ pc = "api"
    /\ \E event \in ServerEvents :
          LET r == server_sm_handle_event(Fresh(ctx), event, now)
          IN /\ ctx' = r.ctx
             /\ last' = [op |-> "server_sm_handle_event", arg |-> event,
                         ret |-> r.ret, reply |-> ""]
    /\ UNCHANGED now /\ Frame

\* arg records the seconds the FSM had been in its state when update ran
Update ==
    /\ pc = "api"
    /\ LET r == server_sm_update(Fresh(ctx), now)
       IN /\ ctx' = r.ctx
          /\ last' = [op |-> "server_sm_update",
                      arg |-> now - ctx.state_enter_time,
                      ret |-> r.ret, reply |-> ""]
    /\ UNCHANGED now /\ Frame

UpdateCecState ==
    /\ pc = "api"
    /\ \E s \in PowerStates :
          LET r == server_sm_update_cec_state(Fresh(ctx), s, now)
          IN /\ ctx' = r.ctx
             /\ last' = [op |-> "server_sm_update_cec_state", arg |-> s,
                         ret |-> r.ret, reply |-> ""]
    /\ UNCHANGED now /\ Frame

UpdateNetworkState ==
    /\ pc = "api"
    /\ \E b \in BOOLEAN :
          LET r == server_sm_update_network_state(Fresh(ctx), b, now)
          IN /\ ctx' = r.ctx
             /\ last' = [op |-> "server_sm_update_network_state", arg |-> b,
                         ret |-> r.ret, reply |-> ""]
    /\ UNCHANGED now /\ Frame

UpdatePs5Info ==
    /\ pc = "api"
    /\ \E i \in CallerInfos :
          LET r == server_sm_update_ps5_info(Fresh(ctx), i, now)
          IN /\ ctx' = r.ctx
             /\ last' = [op |-> "server_sm_update_ps5_info", arg |-> i,
                         ret |-> r.ret, reply |-> ""]
    /\ UNCHANGED now /\ Frame

GetPs5Status ==
    /\ pc = "api"
    /\ ctx' = Fresh(ctx)
    /\ last' = [op |-> "server_sm_get_ps5_status", arg |-> "", ret |-> 0,
                reply |-> server_sm_get_ps5_status(ctx)]
    /\ UNCHANGED now /\ Frame

SetCallback ==
    /\ pc = "api"
    /\ \E callback \in {NULL, "observer"}, user_data \in {NULL, "data"} :
          /\ ctx' = server_sm_set_callback(Fresh(ctx), callback, user_data)
          /\ last' = [op |-> "server_sm_set_callback", arg |-> callback,
                      ret |-> 0, reply |-> ""]
    /\ UNCHANGED now /\ Frame

Stop ==
    /\ pc = "api"
    /\ ctx' = server_sm_stop(Fresh(ctx), now)
    /\ last' = [op |-> "server_sm_stop", arg |-> "", ret |-> 0, reply |-> ""]
    /\ UNCHANGED now /\ Frame

Cleanup ==
    /\ pc = "api"
    /\ ctx' = server_sm_cleanup(Fresh(ctx))
    /\ last' = [op |-> "server_sm_cleanup", arg |-> "", ret |-> 0,
                reply |-> ""]
    /\ UNCHANGED now /\ Frame

\* Spec: an initialized, running context under events, ticks, CEC and
\* network updates and status queries, with the clock advancing.
Next ==
    \/ Advance
    \/ HandleEvent
    \/ Update
    \/ UpdateCecState
    \/ UpdateNetworkState
    \/ GetPs5Status

Spec == Init /\ [][Next]_vars

\* LifeSpec: the whole public API, including init, stop and cleanup, at a
\* fixed time.
LifeNext ==
    \/ SmInit
    \/ SetCallback
    \/ HandleEvent
    \/ Update
    \/ UpdateCecState
    \/ UpdateNetworkState
    \/ UpdatePs5Info
    \/ GetPs5Status
    \/ Stop
    \/ Cleanup

LifeSpec == Init /\ [][LifeNext]_vars

(***************************************************************************)
(* Actions of WakeSpec: the functions of ps5_wake.c called one after the   *)
(* other with any arguments (as test_ps5_wake.c does), each call followed  *)
(* by its return.  last.ret is the value of a function that returns int;   *)
(* a bool or wake_result_t value is last.reply.result.                     *)
(***************************************************************************)
Timeouts == -1..MaxTimeout
RetryCounts == -1..MaxRetries
InfoPtrs == {NullPtr, Ptr(ZeroInfo), Ptr(ScanInfo(0))}
IpPtrs == {NULL, "", ScanInfo(0).ip}

\* what a call of ps5_wake_verify or ps5_wake may meet
VerifyEnvs ==
    {Env(FALSE, 0, 0)}
        \cup {Env(TRUE, u, p) : u \in 0..(MaxTimeout + 1), p \in {0, 1}}

\* what one attempt of ps5_wake_with_retry may meet
RetryEnvs ==
    {Env(FALSE, 0, 0), Env(TRUE, 0, 0), Env(TRUE, 1, 0),
     Env(TRUE, MaxTimeout + 1, 0)}

WakeFrame == UNCHANGED <<ctx, now, served, cec, det>>

WakeModuleInit ==
    /\ pc = "api"
    /\ \E cec_device \in {NULL, "/dev/cec0"}, accessible \in BOOLEAN :
          LET r == ps5_wake_init(cec_device, accessible)
          IN /\ wake_initialized' = (wake_initialized \/ r.sets_initialized)
             /\ last' = [op |-> "ps5_wake_init", arg |-> cec_device,
                         ret |-> r.ret, reply |-> ""]
    /\ pc' = "returned"
    /\ WakeFrame

WakeModuleCleanup ==
    /\ pc = "api"
    /\ wake_initialized' = ps5_wake_cleanup
    /\ last' = [op |-> "ps5_wake_cleanup", arg |-> "", ret |-> 0,
                reply |-> ""]
    /\ pc' = "returned"
    /\ WakeFrame

WakeByCec ==
    /\ pc = "api"
    /\ \E env \in RetryEnvs :
          LET r == ps5_wake_by_cec(wake_initialized, env)
          IN last' = [op |-> "ps5_wake_by_cec",
                      arg |-> [initialized |-> wake_initialized, env |-> env],
                      ret |-> r.ret, reply |-> [trace |-> r.trace]]
    /\ pc' = "returned"
    /\ UNCHANGED wake_initialized /\ WakeFrame

WakeVerify ==
    /\ pc = "api"
    /\ \E ip \in IpPtrs, timeout_sec \in Timeouts, env \in VerifyEnvs :
          LET r == ps5_wake_verify(ip, timeout_sec, env)
          IN last' = [op |-> "ps5_wake_verify",
                      arg |-> [ip |-> ip, timeout_sec |-> timeout_sec,
                               env |-> env],
                      ret |-> 0,
                      reply |-> [result |-> r.verified, trace |-> r.trace,
                                 secs |-> r.secs]]
    /\ pc' = "returned"
    /\ UNCHANGED wake_initialized /\ WakeFrame

WakeOnce ==
    /\ pc = "api"
    /\ \E info \in InfoPtrs, timeout_sec \in Timeouts, env \in VerifyEnvs :
          LET r == ps5_wake(wake_initialized, info, timeout_sec, env)
          IN last' = [op |-> "ps5_wake",
                      arg |-> [initialized |-> wake_initialized,
                               info |-> info, timeout_sec |-> timeout_sec,
                               env |-> env],
                      ret |-> 0,
                      reply |-> [result |-> r.result, trace |-> r.trace,
                                 secs |-> r.secs]]
    /\ pc' = "returned"
    /\ UNCHANGED wake_initialized /\ WakeFrame

WakeWithRetry ==
    /\ pc = "api"
    /\ \E info \in InfoPtrs, max_retries \in RetryCounts,
          timeout_sec \in Timeouts, envs \in [1..MaxRetries -> RetryEnvs] :
          LET r == ps5_wake_with_retry(wake_initialized, info, max_retries,
                                       timeout_sec, envs)
          IN last' = [op |-> "ps5_wake_with_retry",
                      arg |-> [initialized |-> wake_initialized,
                               info |-> info, max_retries |-> max_retries,
                               timeout_sec |-> timeout_sec, envs |-> envs],
                      ret |-> 0,
                      reply |-> [result |-> r.result, trace |-> r.trace,
                                 secs |-> r.secs, attempts |-> r.attempts]]
    /\ pc' = "returned"
    /\ UNCHANGED wake_initialized /\ WakeFrame

\* the call returns to the caller
WakeReturn ==
    /\ pc = "returned"
    /\ pc' = "api"
    /\ last' = NoOp
    /\ UNCHANGED wake_initialized /\ WakeFrame

WakeNext ==
    \/ WakeModuleInit
    \/ WakeModuleCleanup
    \/ WakeByCec
    \/ WakeVerify
    \/ WakeOnce
    \/ WakeWithRetry
    \/ WakeReturn

WakeSpec == Init /\ [][WakeNext]_vars

(***************************************************************************)
(* Actions of CecSpec: the public functions of cec_monitor.c called in any *)
(* order from the zeroed g_cec_ctx, with on_cec_event as the callback and  *)
(* the clock advancing in between.                                         *)
(***************************************************************************)
CecInit ==
    /\ InitCommon
    /\ pc = "api"
    /\ wake_initialized = TRUE
    /\ cec = ZeroCec
    /\ det = ZeroDet

CecFrame == UNCHANGED <<now, pc, served, wake_initialized, det>>

CecMonitorInit ==
    /\ pc = "api"
    /\ \E device_path \in {NULL, "", "/dev/cec0"}, exists \in BOOLEAN :
          LET r == cec_monitor_init(cec, device_path, exists, now)
          IN /\ cec' = r.cec
             /\ last' = [op |-> "cec_monitor_init", arg |-> device_path,
                         ret |-> r.ret, reply |-> <<>>]
    /\ ctx' = Fresh(ctx)
    /\ CecFrame

CecSetCallback ==
    /\ pc = "api"
    /\ \E callback \in {NULL, "on_cec_event"} :
          /\ cec' = cec_monitor_set_callback(cec, callback)
          /\ last' = [op |-> "cec_monitor_set_callback", arg |-> callback,
                      ret |-> 0, reply |-> <<>>]
    /\ ctx' = Fresh(ctx)
    /\ CecFrame

CecProcess ==
    /\ pc = "api"
    /\ \E query \in CecQueries :
          LET r == cec_monitor_process(cec, Fresh(ctx), query, now)
          IN /\ ctx' = r.ctx
             /\ cec' = r.cec
             /\ last' = [op |-> "cec_monitor_process", arg |-> query,
                         ret |-> r.ret, reply |-> r.calls]
    /\ CecFrame

CecQueryState ==
    /\ pc = "api"
    /\ \E query \in CecQueries, state_ptr \in {NULL, "&state"} :
          LET r == cec_monitor_query_state(cec, query, state_ptr, now)
          IN /\ cec' = r.cec
             /\ last' = [op |-> "cec_monitor_query_state", arg |-> query,
                         ret |-> r.ret, reply |-> <<r.out>>]
    /\ ctx' = Fresh(ctx)
    /\ CecFrame

CecCleanup ==
    /\ pc = "api"
    /\ cec' = cec_monitor_cleanup(cec)
    /\ last' = [op |-> "cec_monitor_cleanup", arg |-> "", ret |-> 0,
                reply |-> <<>>]
    /\ ctx' = Fresh(ctx)
    /\ CecFrame

CecNext ==
    \/ Advance
    \/ CecMonitorInit
    \/ CecSetCallback
    \/ CecProcess
    \/ CecQueryState
    \/ CecCleanup

CecSpec == CecInit /\ [][CecNext]_vars

(***************************************************************************)
(* Actions of DetSpec: the public functions of ps5_detector.c called in    *)
(* any order with any arguments from the state before ps5_detector_init,   *)
(* each call followed by its return; the clock advances between calls, by  *)
(* up to the maximum age of a cached record.                               *)
(***************************************************************************)
SUBNET == "192.168.1.0/24"
CACHE_PATH == "/tmp/test_ps5_cache.json"

\* the caller's struct the result is written to
OutPtrs == {NullPtr, Ptr(ZeroInfo)}

\* the records handed to ps5_detector_save_cache at time t
SaveInfos(t) ==
    {NullPtr} \cup
    {Ptr([ip |-> ip, mac |-> mac, last_seen |-> seen, online |-> online]) :
        ip \in {"192.168.1.50", "255.255.255.255", "256.0.0.1"},
        mac \in {"11:22:33:44:55:66", "aa:bb:cc:dd:ee:0f",
                 "GG:BB:CC:DD:EE:FF"},
        seen \in {0, t}, online \in BOOLEAN}

DetInit ==
    /\ InitCommon
    /\ pc = "api"
    /\ wake_initialized = TRUE
    /\ cec = ZeroCec
    /\ det = ZeroDet

DetFrame == UNCHANGED <<ctx, now, served, wake_initialized, cec>>

\* the times the detector is called at
DetTimes == {StartTime, StartTime + MaxElapsed,
             StartTime + PS5_CACHE_MAX_AGE,
             StartTime + PS5_CACHE_MAX_AGE + MaxElapsed}

DetAdvance ==
    /\ pc = "api"
    /\ \E t \in DetTimes : t > now /\ now' = t
    /\ UNCHANGED <<ctx, last, pc, served, wake_initialized, cec, det>>

DetModuleInit ==
    /\ pc = "api"
    /\ \E subnet \in {NULL, SUBNET}, cache_path \in {NULL, CACHE_PATH} :
          LET r == ps5_detector_init(det, subnet, cache_path)
          IN /\ det' = r.det
             /\ last' = [op |-> "ps5_detector_init",
                         arg |-> [subnet |-> subnet,
                                  cache_path |-> cache_path],
                         ret |-> r.ret, reply |-> <<>>]
    /\ pc' = "returned"
    /\ DetFrame

DetScan ==
    /\ pc = "api"
    /\ \E info \in OutPtrs, writable \in BOOLEAN :
          LET r == ps5_detector_scan(det, info, writable, now)
          IN /\ det' = r.det
             /\ last' = [op |-> "ps5_detector_scan",
                         arg |-> [info |-> info, writable |-> writable],
                         ret |-> r.ret,
                         reply |-> [out |-> r.out, scanned |-> r.ret = 0]]
    /\ pc' = "returned"
    /\ DetFrame

DetQuickCheck ==
    /\ pc = "api"
    /\ \E cached_ip \in {NULL} \cup IpStrings, info \in OutPtrs,
          writable \in BOOLEAN :
          LET r == ps5_detector_quick_check(det, cached_ip, info, writable,
                                            now)
          IN /\ det' = r.det
             /\ last' = [op |-> "ps5_detector_quick_check",
                         arg |-> [cached_ip |-> cached_ip, info |-> info,
                                  writable |-> writable],
                         ret |-> r.ret,
                         reply |-> [out |-> r.out, scanned |-> r.scanned]]
    /\ pc' = "returned"
    /\ DetFrame

DetGetCached ==
    /\ pc = "api"
    /\ \E info \in OutPtrs :
          LET r == ps5_detector_get_cached(det, info)
          IN last' = [op |-> "ps5_detector_get_cached",
                      arg |-> [info |-> info],
                      ret |-> r.ret,
                      reply |-> [out |-> r.out, scanned |-> FALSE]]
    /\ pc' = "returned"
    /\ UNCHANGED det /\ DetFrame

DetSaveCache ==
    /\ pc = "api"
    /\ \E info \in SaveInfos(now), writable \in BOOLEAN :
          LET r == ps5_detector_save_cache(det, info, writable)
          IN /\ det' = r.det
             /\ last' = [op |-> "ps5_detector_save_cache",
                         arg |-> [info |-> info, writable |-> writable],
                         ret |-> r.ret, reply |-> <<>>]
    /\ pc' = "returned"
    /\ DetFrame

DetPing ==
    /\ pc = "api"
    /\ \E ip \in {NULL} \cup IpStrings :
          last' = [op |-> "ps5_detector_ping", arg |-> [ip |-> ip],
                   ret |-> 0,
                   reply |-> [result |-> ps5_detector_ping(ip)]]
    /\ pc' = "returned"
    /\ UNCHANGED det /\ DetFrame

DetCleanup ==
    /\ pc = "api"
    /\ det' = ps5_detector_cleanup(det)
    /\ last' = [op |-> "ps5_detector_cleanup", arg |-> <<>>, ret |-> 0,
                reply |-> <<>>]
    /\ pc' = "returned"
    /\ DetFrame

\* the call returns to the caller
DetReturn ==
    /\ pc = "returned"
    /\ pc' = "api"
    /\ last' = NoOp
    /\ UNCHANGED det /\ DetFrame

DetNext ==
    \/ DetAdvance
    \/ DetModuleInit
    \/ DetScan
    \/ DetQuickCheck
    \/ DetGetCached
    \/ DetSaveCache
    \/ DetPing
    \/ DetCleanup
    \/ DetReturn

DetSpec == DetInit /\ [][DetNext]_vars

(***************************************************************************)
(* Actions of DaemonSpec: the steps of one iteration of main_loop          *)
(*   update -> cec -> ws -> process -> sleep -> update ...                 *)
(***************************************************************************)

\* server_sm_update(&g_server_ctx)
LoopUpdate ==
    /\ pc = "update"
    /\ LET r == server_sm_update(Fresh(ctx), now)
       IN /\ ctx' = r.ctx
          /\ last' = [op |-> "server_sm_update",
                      arg |-> now - ctx.state_enter_time,
                      ret |-> r.ret, reply |-> ""]
    /\ pc' = "cec"
    /\ UNCHANGED <<now, served, wake_initialized, cec, det>>

\* the polls the daemon is followed through: the command fails, its
\* output is not understood, or it reports on, standby or off
DaemonQueries ==
    {q \in CecQueries :
        q.output \in {{}, {"pwr-state: on"}, {"pwr-state: standby"},
                      {"pwr-state: to-standby"}}}

\* mutant: the poll runs on a thread of its own, at any point of the loop
LoopCecOwnThread ==
    /\ \E query \in DaemonQueries :
          LET r == cec_monitor_process(cec, Fresh(ctx), query, now)
          IN /\ ctx' = r.ctx
             /\ cec' = r.cec
             /\ last' = [op |-> "cec_monitor_process", arg |-> query,
                         ret |-> r.ret, reply |-> r.calls]
    /\ pc' = (IF pc = "cec" THEN "ws" ELSE pc)
    /\ served' = (IF pc = "cec" THEN 0 ELSE served)
    /\ UNCHANGED <<now, wake_initialized, det>>

\* cec_monitor_process(50)
LoopCec ==
    /\ pc = "cec"
    /\ \E query \in DaemonQueries :
          LET r == cec_monitor_process(cec, Fresh(ctx), query, now)
          IN /\ ctx' = r.ctx
             /\ cec' = r.cec
             /\ last' = [op |-> "cec_monitor_process", arg |-> query,
                         ret |-> r.ret, reply |-> r.calls]
    /\ pc' = "ws"
    /\ served' = 0
    /\ UNCHANGED <<now, wake_initialized, det>>

\* ws_server_service(50) hands a pending message to on_ws_message
WsQuery ==
    /\ pc = "ws" /\ served < MaxServed
    /\ LET r == on_ws_message_query(Fresh(ctx), now)
       IN /\ ctx' = r.ctx
          /\ last' = [op |-> "on_ws_message_query", arg |-> "", ret |-> 0,
                      reply |-> r.response]
    /\ served' = served + 1
    /\ UNCHANGED <<now, pc, wake_initialized, cec, det>>

WsWake ==
    /\ pc = "ws" /\ served < MaxServed
    /\ \E env \in AttemptEnvs :
          LET r == on_ws_message_wake(Fresh(ctx), wake_initialized, env, now)
          IN /\ now + r.secs <= StartTime + MaxElapsed
             /\ now' = now + r.secs
             /\ ctx' = r.ctx
             /\ last' = [op |-> "on_ws_message_wake", arg |-> env,
                         ret |-> 0,
                         reply |-> [type |-> r.response.type,
                                    status |-> r.response.status,
                                    wake_result |-> r.wake_result]]
    /\ served' = served + 1
    /\ UNCHANGED <<pc, wake_initialized, cec, det>>

WsPing ==
    /\ pc = "ws" /\ served < MaxServed
    /\ LET r == on_ws_message_ping(Fresh(ctx), now)
       IN /\ ctx' = r.ctx
          /\ last' = [op |-> "on_ws_message_ping", arg |-> "", ret |-> 0,
                      reply |-> r.response]
    /\ served' = served + 1
    /\ UNCHANGED <<now, pc, wake_initialized, cec, det>>

\* ws_server_service returns
WsServiceDone ==
    /\ pc = "ws"
    /\ pc' = "process"
    /\ UNCHANGED <<ctx, now, last, served, wake_initialized, cec, det>>

\* process_state_machine()
LoopProcess ==
    /\ pc = "process"
    /\ \E writable \in BOOLEAN :
          LET r == process_state_machine(Fresh(ctx), det, writable, now)
          IN /\ ctx' = r.ctx
             /\ det' = r.det
             /\ last' = [op |-> "process_state_machine", arg |-> ctx.state,
                         ret |-> 0, reply |-> r.broadcast]
    /\ pc' = "sleep"
    /\ UNCHANGED <<now, served, wake_initialized, cec>>

\* nanosleep(&sleep_time, NULL)
LoopSleep ==
    /\ pc = "sleep"
    /\ pc' = "update"
    /\ UNCHANGED <<ctx, now, last, served, wake_initialized, cec, det>>

DaemonNext ==
    \/ Advance
    \/ LoopUpdate
    \/ LoopCec
    \/ WsQuery
    \/ WsWake
    \/ WsPing
    \/ WsServiceDone
    \/ LoopProcess
    \/ LoopSleep

DaemonSpec == DaemonInit /\ [][DaemonNext]_vars

\* DaemonLiveSpec: main_loop keeps running (g_running stays true), so each
\* step of an iteration is eventually taken, ws_server_service returns,
\* and the clock keeps advancing while the loop blocks in cec-ctl or sleeps
DaemonLiveSpec ==
    /\ DaemonSpec
    /\ WF_vars(LoopUpdate)
    /\ WF_vars(LoopCec)
    /\ WF_vars(WsServiceDone)
    /\ WF_vars(LoopProcess)
    /\ WF_vars(LoopSleep)
    /\ SF_vars(Advance)

(***************************************************************************)
(* Actions of ProcSpec: process_state_machine called on any context the    *)
(* FSM API produces, with the detector initialized or not                  *)
(***************************************************************************)

\* process_state_machine() called on its own
ProcProcess ==
    /\ pc = "api"
    /\ \E writable \in BOOLEAN :
          LET r == process_state_machine(Fresh(ctx), det, writable, now)
          IN /\ ctx' = r.ctx
             /\ det' = r.det
             /\ last' = [op |-> "process_state_machine", arg |-> ctx.state,
                         ret |-> 0, reply |-> r.broadcast]
    /\ UNCHANGED <<now, pc, served, wake_initialized, cec>>

ProcNext ==
    \/ Update
    \/ HandleEvent
    \/ UpdateCecState
    \/ DetModuleInit
    \/ DetCleanup
    \/ DetReturn
    \/ ProcProcess

ProcSpec == Init /\ [][ProcNext]_vars

(***************************************************************************)
(* The claims                                                              *)
(***************************************************************************)

\* the transition table of the specification: <<state, event, new state>>
TransitionTable ==
    {<<"IDLE", "CEC_CHANGE", "MONITORING">>,
     <<"IDLE", "CLIENT_QUERY", "QUERYING">>,
     <<"IDLE", "WAKE_REQUEST", "WAKING">>,
     <<"MONITORING", "COMPLETED", "BROADCASTING">>,
     <<"MONITORING", "ERROR", "ERROR">>,
     <<"DETECTING", "COMPLETED", "IDLE">>,
     <<"DETECTING", "DETECT_TIMEOUT", "ERROR">>,
     <<"QUERYING", "COMPLETED", "IDLE">>,
     <<"WAKING", "COMPLETED", "MONITORING">>,
     <<"WAKING", "ERROR", "ERROR">>,
     <<"BROADCASTING", "COMPLETED", "IDLE">>,
     <<"ERROR", "NONE", "IDLE">>}

Listed(state, event) ==
    \E row \in TransitionTable : row[1] = state /\ row[2] = event

Target(state, event) ==
    (CHOOSE row \in TransitionTable : row[1] = state /\ row[2] = event)[3]

\* the priority table of Status Fusion, case by case
FusionLabel(cec_state, online) ==
    CASE cec_state = "ON" /\ online -> "on"
      [] cec_state = "ON" /\ ~online -> "starting"
      [] cec_state = "STANDBY" -> "standby"
      [] cec_state = "OFF" -> "off"
      [] cec_state = "UNKNOWN" /\ online -> "on"
      [] cec_state = "UNKNOWN" /\ ~online -> "unknown"

\* the FSM state the last operation started in
PreState == IF ctx.log = <<>> THEN ctx.state ELSE ctx.log[1][1]

\* the FSM states the last operation entered
Entered == {ctx.log[i][2] : i \in DOMAIN ctx.log}

\* a step of Spec that is a call of the named API function
ApiCall(name) == now' = now /\ last'.op = name

\* C1: for an initialized context server_sm_handle_event makes exactly the
\* transition the table gives for each of its 12 (state, event) rows.
C1_TransitionTable ==
    (last.op = "server_sm_handle_event" /\ Listed(PreState, last.arg))
        => /\ last.ret = 0
           /\ ctx.state = Target(PreState, last.arg)
           /\ ctx.log = << <<PreState, Target(PreState, last.arg)>> >>

C1_Witness ==
    /\ last.op = "server_sm_handle_event"
    /\ last.arg = "DETECT_TIMEOUT"
    /\ ctx.log = << <<"DETECTING", "ERROR">> >>
    /\ ctx.state = "ERROR"

\* C2: for a (state, event) pair outside the table server_sm_handle_event
\* returns 0 and leaves state, prev_state and state_enter_time unchanged,
\* and the same event applied again changes nothing either.
C2_UnlistedIsNoOp ==
    [][(ApiCall("server_sm_handle_event") /\ ~Listed(ctx.state, last'.arg))
        => /\ last'.ret = 0
           /\ ctx'.state = ctx.state
           /\ ctx'.prev_state = ctx.prev_state
           /\ ctx'.state_enter_time = ctx.state_enter_time
           /\ ctx'.log = <<>>
           /\ server_sm_handle_event(ctx', last'.arg, now').ctx = ctx']_vars

C2_Witness ==
    /\ last.op = "server_sm_handle_event"
    /\ last.arg = "WAKE_REQUEST"
    /\ last.ret = 0
    /\ ctx.state = "MONITORING"
    /\ ctx.log = <<>>

C4_QueryRoundTrip ==
    (last.op = "on_ws_message_query" /\ PreState = "IDLE")
        => /\ ctx.log = << <<"IDLE", "QUERYING">>, <<"QUERYING", "IDLE">> >>
           /\ ctx.state = "IDLE"
           /\ last.reply.status
                = FusionLabel(ctx.cec_state, ctx.network_online)

C4_Witness ==
    /\ last.op = "on_ws_message_query"
    /\ ctx.log = << <<"IDLE", "QUERYING">>, <<"QUERYING", "IDLE">> >>
    /\ ctx.cec_state = "ON"
    /\ ctx.network_online
    /\ last.reply.status = "on"

\* C5: a wake request taken in IDLE moves IDLE->WAKING, then on SUCCESS
\* ends in MONITORING with reply "success" and on any other wake result
\* ends in ERROR with reply "failed"; the NONE event that follows an ERROR
\* state returns the FSM to IDLE.
C5_WakeFlow ==
    /\ (last.op = "on_ws_message_wake" /\ PreState = "IDLE")
          => /\ last.reply.wake_result
                   \in {"SUCCESS", "CEC_ERROR", "VERIFY_FAILED",
                        "NOT_INITIALIZED"}
             /\ last.reply.wake_result = "SUCCESS"
                   => /\ ctx.log = << <<"IDLE", "WAKING">>,
                                      <<"WAKING", "MONITORING">> >>
                      /\ ctx.state = "MONITORING"
                      /\ last.reply.status = "success"
             /\ last.reply.wake_result # "SUCCESS"
                   => /\ ctx.log = << <<"IDLE", "WAKING">>,
                                      <<"WAKING", "ERROR">> >>
                      /\ ctx.state = "ERROR"
                      /\ last.reply.status = "failed"
    /\ (last.op = "process_state_machine" /\ last.arg = "ERROR")
          => ctx.state = "IDLE"

C5_Witness ==
    /\ last.op = "on_ws_message_wake"
    /\ last.reply.wake_result = "CEC_ERROR"
    /\ ctx.log = << <<"IDLE", "WAKING">>, <<"WAKING", "ERROR">> >>
    /\ ctx.state = "ERROR"
    /\ last.reply.status = "failed"

\* C6: the wake request handler wakes through ps5_wake_with_retry: the FSM
\* ends in MONITORING exactly when the retry sequence (3 attempts, 30 s
\* each, as the integration tests call it) ends in SUCCESS, whatever the
\* attempts after the first one meet.
C6_WakeUsesRetry ==
    (last.op = "on_ws_message_wake" /\ PreState = "IDLE")
        => \A rest \in [1..(TEST_MAX_RETRIES - 1) -> AttemptEnvs] :
              ctx.state = "MONITORING"
                 <=> ps5_wake_with_retry(wake_initialized, Ptr(ctx.info),
                                         TEST_MAX_RETRIES, WAKE_TIMEOUT_SEC,
                                         <<last.arg>> \o rest).result
                        = "SUCCESS"

\* C7: update() on a running context forces ERROR on a state other than
\* IDLE and ERROR held for more than 30 s; it never forces IDLE or ERROR
\* to ERROR and never forces ERROR on a state held for less than 30 s.
C7_Watchdog ==
    (last.op = "server_sm_update" /\ last.ret = 0)
        => /\ (PreState \notin {"IDLE", "ERROR"} /\ last.arg > 30)
                 => /\ ctx.state = "ERROR"
                    /\ ctx.log = << <<PreState, "ERROR">> >>
           /\ PreState \in {"IDLE", "ERROR"} => "ERROR" \notin Entered
           /\ last.arg < 30 => "ERROR" \notin Entered

C7_Witness ==
    /\ last.op = "server_sm_update"
    /\ last.arg > 30
    /\ ctx.log = << <<"MONITORING", "ERROR">> >>
    /\ ctx.state = "ERROR"

\* C8: update() on a running IDLE context whose last detection is at least
\* 60 s old enters DETECTING and stamps last_detect_time with the current
\* time; with fewer than 60 s elapsed it stays IDLE and keeps the stamp.
C8_PeriodicDetection ==
    [][(ApiCall("server_sm_update") /\ ctx.initialized /\ ctx.running
            /\ ctx.state = "IDLE")
        => IF now - ctx.last_detect_time >= 60
           THEN /\ ctx'.state = "DETECTING"
                /\ ctx'.last_detect_time = now
           ELSE /\ ctx'.state = "IDLE"
                /\ ctx'.last_detect_time = ctx.last_detect_time]_vars

C8_Witness ==
    /\ last.op = "server_sm_update"
    /\ ctx.log = << <<"IDLE", "DETECTING">> >>
    /\ ctx.last_detect_time = now
    /\ now >= StartTime + 60

\* C9: in the daemon an ERROR state is healed by the NONE event of the
\* same loop iteration: state processing takes ERROR to IDLE, so no
\* iteration ends, and none begins, with the FSM in ERROR.
C9_ErrorSelfHealing ==
    /\ (last.op = "process_state_machine" /\ last.arg = "ERROR")
          => /\ ctx.state = "IDLE"
             /\ ctx.log = << <<"ERROR", "IDLE">> >>
    /\ pc \in {"sleep", "update"} => ctx.state # "ERROR"

C9_Witness ==
    /\ last.op = "process_state_machine"
    /\ last.arg = "ERROR"
    /\ ctx.state = "IDLE"
    /\ pc = "sleep"

\* C10: server_sm_update_cec_state writes the CEC state and stamps
\* last_update only when the value differs from the stored one; a call
\* with the stored value changes neither cec_state, last_update nor the
\* FSM state and raises no event.
C10_UpdateCecIdempotent ==
    [][ApiCall("server_sm_update_cec_state")
        => IF last'.arg = ctx.cec_state
           THEN /\ ctx'.cec_state = ctx.cec_state
                /\ ctx'.last_update = ctx.last_update
                /\ ctx'.state = ctx.state
                /\ ctx'.log = <<>>
           ELSE /\ ctx'.cec_state = last'.arg
                /\ ctx'.last_update = now]_vars

C10_Witness ==
    /\ last.op = "server_sm_update_cec_state"
    /\ last.arg = ctx.cec_state
    /\ ctx.cec_state = "ON"
    /\ ctx.state = "IDLE"
    /\ ctx.log = <<>>
    /\ ctx.last_update < now

\* C11: server_sm_update_cec_state with a value other than the stored one
\* stores it and stamps last_update in every FSM state; it makes the one
\* transition IDLE->MONITORING when the FSM is IDLE and leaves state,
\* prev_state and state_enter_time alone in any other state.
C11_CecChangeOnlyFromIdle ==
    [][(ApiCall("server_sm_update_cec_state") /\ last'.arg # ctx.cec_state)
        => /\ last'.ret = 0
           /\ ctx'.cec_state = last'.arg
           /\ ctx'.last_update = now
           /\ IF ctx.state = "IDLE"
              THEN /\ ctx'.state = "MONITORING"
                   /\ ctx'.log = << <<"IDLE", "MONITORING">> >>
              ELSE /\ ctx'.state = ctx.state
                   /\ ctx'.prev_state = ctx.prev_state
                   /\ ctx'.state_enter_time = ctx.state_enter_time
                   /\ ctx'.log = <<>>]_vars

C11_Witness ==
    /\ last.op = "server_sm_update_cec_state"
    /\ last.arg = "STANDBY"
    /\ ctx.cec_state = "STANDBY"
    /\ ctx.state = "WAKING"
    /\ ctx.log = <<>>
    /\ ctx.last_update = now
    /\ now > ctx.state_enter_time

\* C12: once a state-change observer is registered with
\* server_sm_set_callback, an operation on the context (other than a new
\* server_sm_init or server_sm_cleanup, which wipe it) calls the observer
\* once for each FSM transition it makes, with the old and the new state.
C12_ObserverNotified ==
    [][(/\ last.op = "server_sm_set_callback" /\ last.arg = "observer"
        /\ last'.op \notin {"server_sm_init", "server_sm_cleanup"})
        => ctx'.notified = ctx'.log]_vars

\* the trace entries that are CEC commands and presence checks
CecCommands == {"cec_ok", "cec_fail"}
Pings == {"ping_ok", "ping_fail"}
Sleeps == {"sleep_500ms", "sleep_1s", "sleep_2s"}

\* C13: ps5_wake with the module initialized, a non-null info and
\* timeout_sec > 0 sends exactly one CEC command; when the command fails it
\* returns CEC_ERROR and makes no presence check; when it succeeds it
\* returns SUCCESS if a presence check succeeds within timeout_sec and
\* VERIFY_FAILED, after timeout_sec have elapsed, if none does.
C13_WakeOnce ==
    (/\ last.op = "ps5_wake" /\ last.arg.initialized
     /\ last.arg.info # NullPtr /\ last.arg.timeout_sec > 0)
        => LET env == last.arg.env
               T == last.arg.timeout_sec
               ip == last.arg.info[1].ip
               trace == last.reply.trace
           IN /\ Occurrences(trace, CecCommands) = 1
              /\ ~env.cec_ok
                    => /\ last.reply.result = "CEC_ERROR"
                       /\ Occurrences(trace, Pings) = 0
              /\ env.cec_ok
                    => /\ last.reply.result \in {"SUCCESS", "VERIFY_FAILED"}
                       /\ last.reply.result = "SUCCESS"
                             <=> Occurrences(trace, {"ping_ok"}) > 0
                       /\ last.reply.result = "SUCCESS" => last.reply.secs <= T
                       /\ last.reply.result = "VERIFY_FAILED" => last.reply.secs >= T
                       /\ (ip # "" /\ env.up_after < T)
                             => last.reply.result = "SUCCESS"
                       /\ (ip = "" \/ env.up_after > T)
                             => last.reply.result = "VERIFY_FAILED"

C13_Witness ==
    /\ last.op = "ps5_wake"
    /\ last.arg.initialized
    /\ last.arg.timeout_sec = MaxTimeout
    /\ last.reply.result = "VERIFY_FAILED"
    /\ Occurrences(last.reply.trace, CecCommands) = 1
    /\ Occurrences(last.reply.trace, Pings) = MaxTimeout + 1

\* C14: ps5_wake_with_retry makes at most max(max_retries, 1) calls of
\* ps5_wake, stops at the first that returns SUCCESS and returns SUCCESS,
\* and otherwise makes them all and returns the result of the last one;
\* with max_retries <= 0 it makes exactly one call, and does and returns
\* what it does with max_retries = 1.
C14_RetryAttempts ==
    last.op = "ps5_wake_with_retry"
        => LET a == last.arg
               limit == IF a.max_retries <= 0 THEN 1 ELSE a.max_retries
               attempts == last.reply.attempts
               valid == a.initialized /\ a.info # NullPtr
           IN /\ Len(attempts) <= limit
              /\ \A k \in DOMAIN attempts :
                    /\ attempts[k] = ps5_wake(a.initialized, a.info,
                                              a.timeout_sec, a.envs[k]).result
                    /\ k < Len(attempts) => attempts[k] # "SUCCESS"
              /\ attempts # <<>> => last.reply.result = attempts[Len(attempts)]
              /\ valid
                    => /\ Len(attempts) >= 1
                       /\ last.reply.result # "SUCCESS" => Len(attempts) = limit
                       /\ a.max_retries <= 0 => Len(attempts) = 1
              /\ a.max_retries <= 0
                    => ps5_wake_with_retry(a.initialized, a.info, 1,
                                           a.timeout_sec, a.envs)
                         = last.reply

C14_Witness ==
    /\ last.op = "ps5_wake_with_retry"
    /\ last.arg.max_retries = MaxRetries
    /\ last.reply.attempts = <<"CEC_ERROR", "VERIFY_FAILED", "SUCCESS">>
    /\ last.reply.result = "SUCCESS"
    /\ Occurrences(last.reply.trace, {"sleep_2s"}) = 2

\* C15: ps5_wake and ps5_wake_with_retry called with the module not
\* initialized, with a null info or with timeout_sec <= 0 return
\* NOT_INITIALIZED and do nothing: no CEC command, no presence check, no
\* sleep.
C15_InvalidCallHasNoEffect ==
    (/\ last.op \in {"ps5_wake", "ps5_wake_with_retry"}
     /\ (\/ ~last.arg.initialized
         \/ last.arg.info = NullPtr
         \/ last.arg.timeout_sec <= 0))
        => /\ last.reply.result = "NOT_INITIALIZED"
           /\ last.reply.trace = <<>>

\* C16: ps5_wake_verify with timeout_sec = T > 0 ends after at most T + 1
\* presence checks: it makes at least one check, sleeps exactly one second
\* between two consecutive checks and nowhere else, returns true at the
\* first check that succeeds and false only once T seconds have elapsed;
\* when a check takes no time a failed verification makes exactly T + 1
\* checks in T seconds.
C16_VerifyTerminates ==
    (/\ last.op = "ps5_wake_verify" /\ last.arg.ip # NULL
     /\ last.arg.timeout_sec > 0)
        => LET T == last.arg.timeout_sec
               trace == last.reply.trace
               n == Len(trace)
               checks == Occurrences(trace, Pings)
               verified == last.reply.result
           IN /\ checks >= 1
              /\ checks <= T + 1
              /\ n = 2 * checks - 1
              /\ \A k \in 1..n :
                    IF k % 2 = 1 THEN trace[k] \in Pings
                    ELSE trace[k] = "sleep_1s"
              /\ \A k \in 1..(n - 1) : trace[k] # "ping_ok"
              /\ verified <=> trace[n] = "ping_ok"
              /\ verified => last.reply.secs <= T
              /\ ~verified => last.reply.secs >= T
              /\ (~verified /\ last.arg.env.ping_secs = 0)
                    => checks = T + 1 /\ last.reply.secs = T

C16_Witness ==
    /\ last.op = "ps5_wake_verify"
    /\ last.arg.timeout_sec = MaxTimeout
    /\ last.arg.env.ping_secs = 0
    /\ ~last.reply.result
    /\ Occurrences(last.reply.trace, Pings) = MaxTimeout + 1
    /\ Occurrences(last.reply.trace, {"sleep_1s"}) = MaxTimeout

\* C17: the poller is edge-triggered.  A poll calls the callback at most
\* once, and only when the state it observes is not UNKNOWN and differs from
\* previous_power_state, the state stored at the previous notification; the
\* call carries the observed state and its event.  Of two consecutive polls
\* that observe the same state the second never calls the callback when the
\* first did.
C17_EdgeTriggered ==
    [][(last'.op = "cec_monitor_process" /\ now' = now)
          => LET state == query_power_status(last'.arg)
                 before == query_power_status(last.arg)
             IN /\ last'.reply # <<>>
                     => /\ state # "UNKNOWN"
                        /\ state # cec.previous_power_state
                        /\ cec.has_callback
                        /\ last'.reply
                              = << <<power_state_to_event(state), state>> >>
                /\ (/\ last.op = "cec_monitor_process"
                    /\ last.reply # <<>>
                    /\ state = before)
                     => last'.reply = <<>>]_vars

C17_Witness ==
    /\ last.op = "cec_monitor_process"
    /\ last.ret = 0
    /\ cec.has_callback
    /\ query_power_status(last.arg) = "STANDBY"
    /\ cec.previous_power_state = "STANDBY"
    /\ cec.last_update < now
    /\ last.reply = <<>>

\* C18: a poll whose query fails or whose output has no known phrase
\* (result UNKNOWN) returns an error (CEC_ERROR_COMMAND_FAILED once the
\* monitor is initialized), calls no callback and leaves g_cec_ctx, with its
\* current state, previous state and last_update, and the context of the
\* callback as they were.
C18_FailedPollChangesNothing ==
    [][(/\ last'.op = "cec_monitor_process"
        /\ now' = now
        /\ query_power_status(last'.arg) = "UNKNOWN")
          => /\ last'.ret = (IF cec.initialized THEN -4 ELSE -1)
             /\ last'.reply = <<>>
             /\ cec' = cec
             /\ ctx' = Fresh(ctx)]_vars

C18_Witness ==
    /\ last.op = "cec_monitor_process"
    /\ last.arg.cmd_ok
    /\ last.ret = -4
    /\ cec.has_callback
    /\ cec.current_power_state = "ON"
    /\ cec.previous_power_state = "ON"
    /\ cec.last_update < now

\* C19: the verification of a wake request does not hold the main loop: the
\* step of ws_server_service that serves a wake request takes no time, the
\* seconds of the verification passing while the loop goes on with its
\* server_sm_update ticks and the other clients' queries.
C19_WakeDoesNotBlockLoop ==
    [][(/\ pc = "ws"
        /\ served' = served + 1
        /\ last'.op = "on_ws_message_wake")
          => now' = now]_vars

\* C20: server_sm_stop called in any state leaves running false and the
\* state IDLE; a stopped context stays stopped until server_sm_init runs
\* again, and every server_sm_update on it returns -1 and changes no field
\* of the context.
C20_StopIsFinal ==
    [][/\ last'.op = "server_sm_stop"
           => ~ctx'.running /\ ctx'.state = "IDLE"
       /\ (~ctx.running /\ last'.op # "server_sm_init") => ~ctx'.running
       /\ (~ctx.running /\ last'.op = "server_sm_update")
           => last'.ret = -1 /\ ctx' = Fresh(ctx)]_vars

C20_Witness ==
    /\ last.op = "server_sm_update"
    /\ last.ret = -1
    /\ ctx.initialized
    /\ ~ctx.running
    /\ ctx.state = "IDLE"
    /\ (now - ctx.last_detect_time) >= SERVER_DETECT_INTERVAL_SEC

\* C21: on a stopped context (initialized, running false, state IDLE) a
\* late COMPLETED or ERROR event and a late CEC-state, network-state or
\* device-info update write nothing: the state stays IDLE and the fused
\* PS5 status is the one before the call.
C21_StoppedContextNotWritten ==
    [][(/\ ctx.initialized /\ ~ctx.running /\ ctx.state = "IDLE"
        /\ \/ /\ last'.op = "server_sm_handle_event"
              /\ last'.arg \in {"COMPLETED", "ERROR"}
           \/ last'.op \in {"server_sm_update_cec_state",
                            "server_sm_update_network_state",
                            "server_sm_update_ps5_info"})
          => /\ ctx'.state = "IDLE"
             /\ server_sm_get_ps5_status(ctx')
                   = server_sm_get_ps5_status(ctx)]_vars

\* C22: when a detection tier succeeds (ps5_detector_get_cached, the quick
\* check or the full scan returns 0) the record it returns is the cached
\* record: ps5_detector_get_cached called next returns 0 with that record.
C22_TierSuccessWritesCache ==
    (/\ last.op \in {"ps5_detector_get_cached", "ps5_detector_quick_check",
                     "ps5_detector_scan"}
     /\ last.ret = 0)
        => LET next == ps5_detector_get_cached(det, Ptr(ZeroInfo))
           IN next.ret = 0 /\ next.out = last.reply.out

\* C23: the cache is used only while it is fresh: ps5_detector_get_cached
\* returns the cached record only when its age, the time since last_seen,
\* is not above PS5_CACHE_MAX_AGE; an older record is not returned.
C23_CacheUsedOnlyWhileFresh ==
    (last.op = "ps5_detector_get_cached" /\ last.ret = 0)
        => now - last.reply.out[1].last_seen <= PS5_CACHE_MAX_AGE

\* C24: ps5_detector_quick_check on an initialized detector with a result
\* struct runs the full scan if and only if the candidate IP is null or
\* fails validate_ip.  With a valid candidate it returns 0 with that IP in
\* the result and no scan; otherwise the result is the record of the scan,
\* whose IP is not the candidate.
C24_QuickCheckEscalation ==
    (/\ last.op = "ps5_detector_quick_check"
     /\ det.initialized
     /\ last.arg.info # NullPtr)
        => LET cached_ip == last.arg.cached_ip
               valid == cached_ip # NULL /\ validate_ip(cached_ip)
               out == last.reply.out[1]
           IN /\ last.reply.scanned <=> ~valid
              /\ last.ret = 0
              /\ valid => /\ out.ip = cached_ip
                          /\ out.online /\ out.last_seen = now
              /\ ~valid => /\ out = ScanInfo(now)
                           /\ out.ip # cached_ip
                           /\ det.cached_info = out

C24_Witness ==
    /\ last.op = "ps5_detector_quick_check"
    /\ last.arg.cached_ip = "256.0.0.1"
    /\ last.reply.scanned
    /\ last.ret = 0
    /\ last.reply.out[1].ip = "192.168.1.100"

\* C25: cache round trip.  After ps5_detector_save_cache(info) returns 0,
\* ps5_detector_get_cached returns 0 with the ip, mac, online flag and
\* last_seen of info.  Before any successful save or scan the read fails:
\* on an initialized detector whose cache cannot be read, the cache stays
\* unreadable over every call other than a save or a scan that returns 0.
C25_CacheRoundTrip ==
    [][/\ (last'.op = "ps5_detector_save_cache" /\ last'.ret = 0)
           => LET got == ps5_detector_get_cached(det', Ptr(ZeroInfo))
              IN got.ret = 0 /\ got.out = last'.arg.info
       /\ (/\ pc = "api" /\ pc' = "returned"
           /\ det.initialized /\ det'.initialized
           /\ ps5_detector_get_cached(det, Ptr(ZeroInfo)).ret # 0
           /\ ~(/\ last'.op \in {"ps5_detector_save_cache",
                                  "ps5_detector_scan",
                                  "ps5_detector_quick_check"}
                /\ last'.ret = 0))
           => ps5_detector_get_cached(det', Ptr(ZeroInfo)).ret # 0]_vars

\* C26: a ps5_detector_save_cache that returns an error (detector not
\* initialized, null info, invalid IP, invalid MAC, or the file not
\* written) leaves the cache as it was: ps5_detector_get_cached gives the
\* same result after the call as before it.
C26_FailedSaveChangesNothing ==
    [][(last'.op = "ps5_detector_save_cache" /\ last'.ret # 0)
          => ps5_detector_get_cached(det', Ptr(ZeroInfo))
               = ps5_detector_get_cached(det, Ptr(ZeroInfo))]_vars

\* the fields of a string between its dots
RECURSIVE FieldsOf(_, _, _)
FieldsOf(cs, i, field) ==
    IF i > Len(cs) THEN <<field>>
    ELSE IF cs[i] = "." THEN <<field>> \o FieldsOf(cs, i + 1, <<>>)
    ELSE FieldsOf(cs, i + 1, Append(field, cs[i]))

RECURSIVE DecimalValue(_)
DecimalValue(field) ==
    IF field = <<>> THEN 0
    ELSE 10 * DecimalValue(SubSeq(field, 1, Len(field) - 1))
            + DigitValue(field[Len(field)])

\* four dot-separated decimal integers, each in 0..255, and nothing else
IsDottedQuad(cs) ==
    LET fields == FieldsOf(cs, 1, <<>>)
    IN /\ Len(fields) = 4
       /\ \A k \in 1..4 :
             /\ Len(fields[k]) >= 1
             /\ \A j \in 1..Len(fields[k]) : fields[k][j] \in Digits
             /\ DecimalValue(fields[k]) <= 255

\* C27: IP validation, as ps5_detector_ping exposes it, accepts exactly the
\* strings made of four dot-separated decimal integers in 0..255 with no
\* other character: null, the empty string and any string with a sign,
\* white space or a trailing character are rejected.
C27_ValidateIpExact ==
    last.op = "ps5_detector_ping"
        => (last.reply.result
              <=> (last.arg.ip # NULL /\ IsDottedQuad(Chars(last.arg.ip))))

\* C28: after server_sm_init returns 0 the context is initialized and
\* running, the state is IDLE, the CEC state UNKNOWN and network_online
\* false; server_sm_init(NULL) returns -1; and an initialized context is
\* never in INIT, whatever operations follow.
C28_InitEstablishesIdle ==
    /\ (last.op = "server_sm_init" /\ last.ret = 0)
          => /\ ctx.initialized /\ ctx.running
             /\ ctx.state = "IDLE"
             /\ ctx.cec_state = "UNKNOWN"
             /\ ~ctx.network_online
    /\ (last.op = "server_sm_init" /\ last.arg = NULL) => last.ret = -1
    /\ (last.op = "server_sm_init" /\ last.arg # NULL) => last.ret = 0
    /\ ctx.initialized => ctx.state # "INIT"

C28_Witness ==
    /\ last.op = "server_sm_init"
    /\ last.ret = 0
    /\ ctx.log = << <<"INIT", "IDLE">> >>
    /\ ctx.initialized /\ ctx.running
    /\ ctx.state = "IDLE"

C30_UninitializedRejected ==
    [][/\ (~ctx.initialized
            /\ last'.op \in {"server_sm_handle_event", "server_sm_update",
                             "server_sm_update_cec_state",
                             "server_sm_update_network_state",
                             "server_sm_update_ps5_info"})
          => (last'.ret = -1 /\ ctx' = Fresh(ctx))
       /\ (~ctx.initialized /\ last'.op = "server_sm_get_ps5_status")
          => (last'.reply = "unknown" /\ ctx' = Fresh(ctx))
       /\ (last'.op = "server_sm_cleanup")
          => (~ctx'.initialized /\ ~ctx'.running)]_vars

\* a cleaned-up context that server_sm_stop then moved to IDLE refuses an event
C30_Witness ==
    /\ ~ctx.initialized /\ ~ctx.running /\ ctx.state = "IDLE"
    /\ last.op = "server_sm_handle_event" /\ last.ret = -1

\* C31: in the daemon a coordinator that is in MONITORING leaves it only for
\* BROADCASTING (on COMPLETED), where the status is broadcast and the next
\* state is IDLE; the flow never passes through ERROR.
C31_MonitoringCompletes ==
    [][/\ (ctx.state = "MONITORING")
          => ctx'.state \in {"MONITORING", "BROADCASTING"}
       /\ (ctx.state = "BROADCASTING")
          => ctx'.state \in {"BROADCASTING", "IDLE"}]_vars

\* the latest time at which a state can be entered and still be followed
\* for the whole watchdog timeout
WatchdogHorizon == StartTime + MaxElapsed - SERVER_STATE_TIMEOUT_SEC

\* C32: no wedge: in the running daemon, with the loop ticking and the
\* clock advancing, a coordinator found outside IDLE (early enough for the
\* watchdog timeout to be followed) is eventually back in IDLE.
C32_NoWedge ==
    (ctx.state # "IDLE" /\ now <= WatchdogHorizon) ~> (ctx.state = "IDLE")

\* the watchdog ended a MONITORING nobody completed, and the ERROR it left
\* was recovered from by process_state_machine
C32_Witness ==
    /\ last.op = "process_state_machine" /\ last.arg = "ERROR"
    /\ ctx.state = "IDLE" /\ ctx.prev_state = "ERROR"
    /\ ctx.cec_state = "ON"
    /\ now = StartTime + SERVER_STATE_TIMEOUT_SEC

\* C33: a client status query leaves the FSM state as it found it, whatever
\* that state is: served while the coordinator is not IDLE it neither
\* advances nor aborts the flow in progress.
C33_QueryKeepsState ==
    [][(/\ pc = "ws"
        /\ served' = served + 1
        /\ last'.op = "on_ws_message_query")
          => ctx'.state = ctx.state]_vars

\* ps5_wake returns one of these results only after ps5_wake_by_cec has run
\* the cec-ctl wake command
CommandRun(wake_result) ==
    wake_result \in {"SUCCESS", "VERIFY_FAILED", "CEC_ERROR"}

\* C34: the CEC wake command is run only when the WAKE_REQUEST event was
\* accepted (the FSM moved IDLE->WAKING): a wake request served in any other
\* state runs no wake command and leaves the FSM state as it was.
C34_WakeOnlyWhenAccepted ==
    (last.op = "on_ws_message_wake" /\ PreState # "IDLE")
        => /\ ~CommandRun(last.reply.wake_result)
           /\ ctx.log = <<>>

C36_TransitionBookkeeping ==
    /\ [](ctx.initialized => ctx.prev_state # ctx.state)
    /\ [][/\ (ctx'.state # ctx.state)
                => /\ ctx'.prev_state = ctx.state
                   /\ ctx'.state_enter_time = now'
          /\ (ctx'.state = ctx.state)
                => /\ ctx'.prev_state = ctx.prev_state
                   /\ ctx'.state_enter_time = ctx.state_enter_time]_vars

\* a CEC change taken in IDLE 30 s after the context was constructed
C36_Witness ==
    /\ last.op = "server_sm_update_cec_state"
    /\ ctx.state = "MONITORING" /\ ctx.prev_state = "IDLE"
    /\ ctx.state_enter_time = StartTime + 30
    /\ now = StartTime + 30

\* C37: startup detection: the first server_sm_update after server_sm_init,
\* however long after it, finds the context in IDLE with last_detect_time 0
\* and moves it to DETECTING, stamping last_detect_time with the time of
\* the call.
C37_StartupDetection ==
    [][(last.op = "init" /\ last'.op = "server_sm_update")
          => /\ ctx.state = "IDLE" /\ ctx.last_detect_time = 0
             /\ last'.ret = 0
             /\ ctx'.state = "DETECTING"
             /\ ctx'.last_detect_time = now]_vars

\* the first call of update comes 15 s after construction
C37_Witness ==
    /\ last.op = "server_sm_update" /\ last.arg = 15
    /\ ctx.log = << <<"IDLE", "DETECTING">> >>
    /\ ctx.last_detect_time = StartTime + 15
    /\ ctx.last_update = StartTime
    /\ ctx.cec_state = "UNKNOWN"

\* the step makes a transition into DETECTING
EntersDetecting ==
    /\ ctx' # ctx
    /\ \E i \in DOMAIN ctx'.log : ctx'.log[i][2] = "DETECTING"

\* C38: DETECTING is entered only by server_sm_update, from IDLE: no event
\* and no client request enters it. last_detect_time is the time of the
\* latest entry (it is written when DETECTING is entered and at no other
\* step), and an entry comes at least 60 s after it, so two consecutive
\* entries are at least 60 s apart.
C38_DetectingOnlyByUpdate ==
    [][/\ EntersDetecting
            => /\ last'.op = "server_sm_update"
               /\ ctx.state = "IDLE"
               /\ ctx'.log = << <<"IDLE", "DETECTING">> >>
               /\ ctx'.last_detect_time = now
               /\ now - ctx.last_detect_time >= SERVER_DETECT_INTERVAL_SEC
       /\ ~EntersDetecting
            => ctx'.last_detect_time = ctx.last_detect_time]_vars

\* the second detection of the daemon, 60 s after the one at startup
C38_Witness ==
    /\ last.op = "server_sm_update" /\ pc = "cec"
    /\ ctx.state = "DETECTING"
    /\ ctx.last_detect_time = StartTime + SERVER_DETECT_INTERVAL_SEC
    /\ det.cached_info.last_seen = StartTime

\* C39: in the daemon, once the cec_state of the context is ON, STANDBY or
\* OFF it never goes back to UNKNOWN, whatever the later polls return, and
\* from then on neither a query reply nor a broadcast carries the status
\* "unknown".
C39_CecStateNeverBackToUnknown ==
    [][(ctx.cec_state # "UNKNOWN")
          => /\ ctx'.cec_state # "UNKNOWN"
             /\ (last' # last /\ last'.op = "on_ws_message_query")
                   => last'.reply.status # "unknown"
             /\ (last' # last /\ last'.op = "process_state_machine")
                   => last'.reply # "unknown"]_vars

\* a poll fails after the context has learnt that the PS5 is in standby
C39_Witness ==
    /\ last.op = "cec_monitor_process" /\ last.ret = -4
    /\ pc = "ws"
    /\ ctx.cec_state = "STANDBY"
    /\ cec.current_power_state = "STANDBY"
    /\ server_sm_get_ps5_status(ctx) = "standby"

\* what a call that made n attempts does from its k-th attempt on: the
\* attempts in order, one 2 s backoff after each of them but the last
RECURSIVE AttemptsWithBackoff(_, _, _)
AttemptsWithBackoff(a, n, k) ==
    IF k > n THEN <<>>
    ELSE ps5_wake(a.initialized, a.info, a.timeout_sec, a.envs[k]).trace
            \o (IF k < n THEN <<"sleep_2s">> ELSE <<>>)
            \o AttemptsWithBackoff(a, n, k + 1)

\* C40: backoff placement in ps5_wake_with_retry: a call that made n
\* attempts slept the 2 s backoff exactly once between two consecutive
\* attempts (n - 1 times in all) and nowhere else: not after the last
\* attempt and not after an attempt that returned SUCCESS.
C40_BackoffPlacement ==
    last.op = "ps5_wake_with_retry"
        => LET n == Len(last.reply.attempts)
               trace == last.reply.trace
           IN /\ trace = AttemptsWithBackoff(last.arg, n, 1)
              /\ Occurrences(trace, {"sleep_2s"}) = (IF n = 0 THEN 0 ELSE n - 1)
              /\ last.reply.result = "SUCCESS"
                    => Occurrences(ps5_wake(last.arg.initialized,
                                            last.arg.info,
                                            last.arg.timeout_sec,
                                            last.arg.envs[n]).trace,
                                   Pings \cup CecCommands) > 0
                       /\ trace[Len(trace)] # "sleep_2s"

\* every attempt of the call failed: two backoffs between three attempts,
\* none after the third
C40_Witness ==
    /\ last.op = "ps5_wake_with_retry"
    /\ last.arg.max_retries = MaxRetries
    /\ last.reply.attempts = <<"CEC_ERROR", "VERIFY_FAILED", "CEC_ERROR">>
    /\ last.reply.result = "CEC_ERROR"
    /\ Occurrences(last.reply.trace, {"sleep_2s"}) = 2

====
